---- MODULE Spec2Model ----
(***************************************************************************)
(* wordpan: the client-side collection hooks (useFlashcards,               *)
(* useFavoriteWords, useWordPairs) and the remote row store they mirror.   *)
(*                                                                         *)
(* Every hook operation is asynchronous.  It is modelled in three steps:   *)
(*   - the call: the synchronous prefix of the function; it reads the      *)
(*     values its closure captured at the render that created it and       *)
(*     issues the remote request;                                          *)
(*   - the store step: the remote store handles the request atomically     *)
(*     (or the request fails) and a response is produced;                  *)
(*   - the settle step: the continuation after `await` runs on the client, *)
(*     applies its setState calls and returns.                             *)
(* Calls of one hook instance may overlap: nothing in the hooks serialises *)
(* them.                                                                   *)
(***************************************************************************)
EXTENDS Integers, Sequences, FiniteSets, TLC

VARIABLES
    collection,   \* the hook exercised (favorites, decks, cards, progress, pairs) or the page
    mounted,      \* the component that owns the hook instance is still mounted
    deleteConfirm, \* FavoritesPage, WordPairsPage: the item of the confirmation dialog;
                  \* FlashcardsPage: deleteCardConfirm
    selectedDeckId, \* FlashcardsPage, RandomPhrasePage: selectedDeckId
    currentCardIndex, \* FlashcardsPage: currentCardIndex, counted from 0
    isFlipped,    \* FlashcardCard: isFlipped of the rendered flashcard
    user,         \* useUser(): the current Owner
    calls,        \* the hook calls of this run: slot -> call record
    clock,        \* the client's wall clock (new Date())
    favRows,      \* table favorite_words, in creation order
    favorites,    \* useFavoriteWords: favorites
    favLoading,   \* useFavoriteWords: loading
    favError,     \* useFavoriteWords: error
    deckRows,     \* table flashcard_decks, in creation order
    cardRows,     \* table flashcard_cards, in creation order
    progRows,     \* table flashcard_progress, in creation order
    decks,        \* useFlashcards: decks
    cards,        \* useFlashcards: cards
    progress,     \* useFlashcards: progress, card id -> record
    loading,      \* useFlashcards: loading
    error,        \* useFlashcards: error
    pairRows,     \* table word_pairs, in creation order
    state         \* useWordPairs: state (pairs, loading, error, pagination)

favStoreVars == <<favRows>>
favHookVars == <<favorites, favLoading, favError>>
favVars == <<favRows, favorites, favLoading, favError>>

flashStoreVars == <<deckRows, cardRows, progRows>>
flashHookVars == <<decks, cards, progress, loading, error>>
flashVars == <<deckRows, cardRows, progRows, decks, cards, progress, loading, error>>

pairVars == <<pairRows, state>>

studyVars == <<selectedDeckId, currentCardIndex, isFlipped>>

pageVars == <<mounted, deleteConfirm, studyVars>>

vars ==
    <<pageVars, collection, user, calls, clock, favVars, flashVars, pairVars>>

-----------------------------------------------------------------------------
(* Bounds *)

\* Number of hook calls made in one run (each call slot is used once).
MaxCalls == 2

-----------------------------------------------------------------------------
(* Values *)

Me == "u1"
Other == "u2"

NoError == "null"

\* `!selectedDeckId`, `!editingCardId`, `!deleteConfirm`: nothing is selected
NoSelection == 0

\* A store error object as the client sees it: `err instanceof Error` holds for
\* some client library versions and not for others.
\* A response: the error code ("none": no error), whether the error object is
\* an Error instance, the rows returned, and the number of rows the statement
\* touched.
Ok(rows) == [error |-> "none", isError |-> FALSE, data |-> rows, affected |-> 0]

Failed(code) == [error |-> code, isError |-> FALSE, data |-> <<>>, affected |-> 0]

\* A failing request (network, store): `err instanceof Error` holds for some
\* client library versions and not for others.
StoreFaults == { [Failed("fault") EXCEPT !.isError = b] : b \in BOOLEAN }

UniqueViolation == Failed("23505")

NoReturn == [ok |-> FALSE, val |-> <<>>]
Return(b) == [ok |-> b, val |-> <<>>]
ReturnItem(x) == [ok |-> TRUE, val |-> <<x>>]

\* A call record: the operation and its arguments, the values its closure
\* captured (uid: user, cap: the mirror, idx: currentCardIndex), the handler that made the call, whether
\* any other call was in flight when it was made, the step it has reached, the
\* response of the store and the value returned to the caller.
IdleCall ==
    [op |-> "none", arg |-> <<>>, uid |-> "null", cap |-> <<>>, idx |-> 0, by |-> "caller",
     alone |-> TRUE, phase |-> "idle", resp |-> Ok(<<>>), ret |-> NoReturn]

CallIds == 1..MaxCalls

\* Slots are used in order, so the slot number is the order of the calls.
CanCall(i) ==
    /\ calls[i].phase = "idle"
    /\ i > 1 => calls[i - 1].phase # "idle"

InFlight(i) == calls[i].phase \notin {"idle", "done"}

\* The call `op(arg)` made now: its request is on its way to the store.
NewCall(op, arg, cap) ==
    [IdleCall EXCEPT !.op = op, !.arg = arg, !.uid = user, !.cap = cap,
                     !.alone = \A k \in CallIds : ~InFlight(k), !.phase = "sent"]

\* The call `op(arg)` returning `ret` at once, without a request.
Returned(op, arg, ret) ==
    [IdleCall EXCEPT !.op = op, !.arg = arg, !.uid = user,
                     !.alone = \A k \in CallIds : ~InFlight(k),
                     !.phase = "done", !.ret = ret]

\* FavoritesPage.handleDeleteWord, WordPairsPage.handleDelete: after the awaited
\* delete succeeded, `setDeleteConfirm(null)`
AfterDelete(call) ==
    IF call.by \in {"handleDeleteWord", "handleDelete"} /\ call.resp.error = "none"
    THEN NoSelection
    ELSE deleteConfirm

\* FlashcardsPage: `selectedDeck && cards.length > 0`, the study section is
\* rendered
StudyShown(ds, sel, cs) ==
    /\ \E k \in DOMAIN ds : ds[k].id = sel
    /\ cs # <<>>

\* FlashcardsPage: `currentCard ?`, with currentCard = cards[currentCardIndex]:
\* the FlashcardCard is rendered
CardShown(ds, sel, cs, index) == StudyShown(ds, sel, cs) /\ index < Len(cs)

\* FlashcardCard: useState(controlledFlipped ?? false).  The element has no
\* key, so the state lives as long as a FlashcardCard is rendered at its place
\* and starts again at false when one is rendered after a render without it.
FlippedAfter(ds, sel, cs, index) ==
    IF CardShown(ds, sel, cs, index) THEN isFlipped ELSE FALSE

\* FlashcardsPage.handleDeleteCard after the awaited deleteCard succeeded:
\* `if (currentCardIndex >= cards.length - 1)
\*    setCurrentCardIndex(Math.max(0, currentCardIndex - 1))`, with the
\* currentCardIndex and the cards of the render that created the handler
IndexAfterDelete(call) ==
    IF call.by = "handleDeleteCard" /\ call.resp.error = "none"
          /\ call.idx >= Len(call.cap) - 1
    THEN IF call.idx - 1 > 0 THEN call.idx - 1 ELSE 0
    ELSE currentCardIndex

\* FlashcardsPage.handleDeleteCard after the awaited deleteCard failed:
\* `setDeleteCardConfirm(null)` at once
AfterDeleteCard(call) ==
    IF call.by = "handleDeleteCard" /\ call.resp.error # "none"
    THEN NoSelection
    ELSE deleteConfirm

\* The store has handled the request of call i and answers `resp`.
Answer(i, resp) == [calls EXCEPT ![i].phase = "answered", ![i].resp = resp]

\* The continuation of call i has run and returns `ret`.
Settle(i, ret) == [calls EXCEPT ![i].phase = "done", ![i].ret = ret]

\* The id the store assigns to the row created by call i (gen_random_uuid()).
NewId(i) == 10 + i

Settles(i) == calls[i].phase # "done" /\ calls'[i].phase = "done"

\* `err instanceof Error ? err : new Error(fallback)`
CaughtError(resp, fallback) ==
    IF resp.isError THEN "store: " \o resp.error ELSE fallback

-----------------------------------------------------------------------------
(* Sequences *)

RECURSIVE Reverse(_)
Reverse(s) == IF s = <<>> THEN <<>> ELSE Reverse(Tail(s)) \o <<Head(s)>>

Range(s) == { s[k] : k \in DOMAIN s }

Count(s, x) == Cardinality({ k \in DOMAIN s : s[k] = x })

\* [...new Set(s)]: the first occurrence of each element, in order.
RECURSIVE Dedup(_)
Dedup(s) ==
    IF s = <<>> THEN <<>>
    ELSE LET init == Dedup(SubSeq(s, 1, Len(s) - 1))
             last == s[Len(s)]
         IN  IF last \in Range(init) THEN init ELSE Append(init, last)

-----------------------------------------------------------------------------
(* Words: a word is a sequence of characters *)

IsSpace(ch) == ch = " "

\* String.prototype.toLowerCase, on the characters the model uses
LowerChar(ch) ==
    CASE ch = "A" -> "a"
      [] ch = "B" -> "b"
      [] OTHER -> ch

ToLowerCase(w) == [k \in DOMAIN w |-> LowerChar(w[k])]

RECURSIVE TrimStart(_)
TrimStart(w) ==
    IF w # <<>> /\ IsSpace(Head(w)) THEN TrimStart(Tail(w)) ELSE w

\* String.prototype.trim
Trim(w) == Reverse(TrimStart(Reverse(TrimStart(w))))

-----------------------------------------------------------------------------
(* Table favorite_words: unique(user_id, word), row-level security by owner *)

FavRow(owner, word) == [owner |-> owner, word |-> word]

\* insert into favorite_words: the unique constraint compares the stored text
FavInsert(rows, owner, word) ==
    IF \E k \in DOMAIN rows : rows[k].owner = owner /\ rows[k].word = word
    THEN [rows |-> rows, resp |-> UniqueViolation]
    ELSE [rows |-> Append(rows, FavRow(owner, word)), resp |-> Ok(<<>>)]

\* delete from favorite_words where user_id = owner and word = word.  The
\* request has no select(), so the response carries no rows; `affected` is the
\* number of rows the statement deleted, which the client is not told.
FavDelete(rows, owner, word) ==
    LET left == SelectSeq(rows, LAMBDA r : ~(r.owner = owner /\ r.word = word))
    IN  [rows |-> left, resp |-> [Ok(<<>>) EXCEPT !.affected = Len(rows) - Len(left)]]

\* select word ... where user_id = owner order by created_at desc
FavSelect(rows, owner) ==
    LET mine == SelectSeq(rows, LAMBDA r : r.owner = owner)
    IN  Reverse([k \in DOMAIN mine |-> mine[k].word])

-----------------------------------------------------------------------------
(* useFavoriteWords *)

\* A normalization that keeps the letter case: word.trim()
TrimOnly(word) == Trim(word)

\* word.trim().toLowerCase()
Normalize(word) == ToLowerCase(Trim(word))

\* The words a caller passes to addFavorite: three spellings of one word, and
\* another word.
WordInputs == { <<"A">>, <<"a">>, <<" ", "a", " ">>, <<"b">>, <<" ">> }

\* The words a caller passes to removeFavorite: as the page shows them
\* (FavoritesPage) or as the phrase spells them (RandomPhrasePage).
RemoveInputs == { <<"A">>, <<"b">> }

\* A conflict handler without set semantics: [...favorites, word]
AppendOnConflict(captured, word) == captured \o <<Normalize(word)>>

\* setFavorites([...new Set([...favorites, word.trim().toLowerCase()])])
AddFavoriteOnConflict(captured, word) == Dedup(captured \o <<Normalize(word)>>)

\* setFavorites([...new Set([word.trim().toLowerCase(), ...favorites])])
AddFavoriteOnSuccess(captured, word) == Dedup(<<Normalize(word)>> \o captured)

\* setFavorites(favorites.filter((w) => w !== word.trim().toLowerCase()))
RemoveFavoriteOnSuccess(captured, word) ==
    SelectSeq(captured, LAMBDA w : w # Normalize(word))

\* favorites.includes(word.trim().toLowerCase())
isFavorite(word) == Normalize(word) \in Range(favorites)

fetchFavorites(i) ==
    /\ collection = "favorites"
    /\ CanCall(i)
    /\ IF user = "null"
       THEN /\ calls' = [calls EXCEPT ![i] = Returned("fetchFavorites", <<>>, Return(TRUE))]
            /\ UNCHANGED favHookVars
       ELSE /\ calls' = [calls EXCEPT ![i] = NewCall("fetchFavorites", <<>>, <<>>)]
            /\ favLoading' = TRUE
            /\ favError' = NoError
            /\ UNCHANGED favorites
    /\ UNCHANGED <<pageVars, collection, user, clock, favStoreVars, flashVars, pairVars>>

fetchFavoritesStore(i) ==
    /\ calls[i].op = "fetchFavorites"
    /\ calls[i].phase = "sent"
    /\ \/ calls' = Answer(i, Ok(FavSelect(favRows, calls[i].uid)))
       \/ \E f \in StoreFaults : calls' = Answer(i, f)
    /\ UNCHANGED <<pageVars, collection, user, clock, favVars, flashVars, pairVars>>

fetchFavoritesSettle(i) ==
    /\ calls[i].op = "fetchFavorites"
    /\ calls[i].phase = "answered"
    /\ IF calls[i].resp.error # "none"
       THEN /\ favError' = CaughtError(calls[i].resp, "Failed to fetch favorites")
            /\ UNCHANGED favorites
       ELSE /\ favorites' = calls[i].resp.data
            /\ UNCHANGED favError
    /\ favLoading' = FALSE
    /\ calls' = Settle(i, Return(TRUE))
    /\ UNCHANGED <<pageVars, collection, user, clock, favStoreVars, flashVars, pairVars>>

addFavorite(i, word) ==
    /\ collection = "favorites"
    /\ CanCall(i)
    /\ IF user = "null"
       THEN calls' = [calls EXCEPT ![i] = Returned("addFavorite", <<word>>, Return(FALSE))]
       ELSE calls' = [calls EXCEPT ![i] = NewCall("addFavorite", <<word>>, favorites)]
    /\ UNCHANGED <<pageVars, collection, user, clock, favVars, flashVars, pairVars>>

addFavoriteStore(i) ==
    /\ calls[i].op = "addFavorite"
    /\ calls[i].phase = "sent"
    /\ \/ LET r == FavInsert(favRows, calls[i].uid, Normalize(calls[i].arg[1]))
          IN  /\ favRows' = r.rows
              /\ calls' = Answer(i, r.resp)
       \/ \E f \in StoreFaults :
             /\ calls' = Answer(i, f)
             /\ UNCHANGED favRows
    /\ UNCHANGED <<pageVars, collection, user, clock, favHookVars, flashVars, pairVars>>

addFavoriteSettle(i) ==
    /\ calls[i].op = "addFavorite"
    /\ calls[i].phase = "answered"
    /\ LET c == calls[i]
       IN  IF c.resp.error = "23505"
           THEN /\ favorites' = AddFavoriteOnConflict(c.cap, c.arg[1])
                /\ calls' = Settle(i, Return(TRUE))
                /\ UNCHANGED favError
           ELSE IF c.resp.error # "none"
           THEN /\ favError' = CaughtError(c.resp, "Failed to add favorite")
                /\ calls' = Settle(i, Return(FALSE))
                /\ UNCHANGED favorites
           ELSE /\ favorites' = AddFavoriteOnSuccess(c.cap, c.arg[1])
                /\ calls' = Settle(i, Return(TRUE))
                /\ UNCHANGED favError
    /\ UNCHANGED <<pageVars, collection, user, clock, favStoreVars, favLoading, flashVars, pairVars>>

removeFavorite(i, word) ==
    /\ collection = "favorites"
    /\ CanCall(i)
    /\ IF user = "null"
       THEN calls' = [calls EXCEPT ![i] = Returned("removeFavorite", <<word>>, Return(FALSE))]
       ELSE calls' = [calls EXCEPT ![i] = NewCall("removeFavorite", <<word>>, favorites)]
    /\ UNCHANGED <<pageVars, collection, user, clock, favVars, flashVars, pairVars>>

removeFavoriteStore(i) ==
    /\ calls[i].op = "removeFavorite"
    /\ calls[i].phase = "sent"
    /\ \/ LET r == FavDelete(favRows, calls[i].uid, Normalize(calls[i].arg[1]))
          IN  /\ favRows' = r.rows
              /\ calls' = Answer(i, r.resp)
       \/ \E f \in StoreFaults :
             /\ calls' = Answer(i, f)
             /\ UNCHANGED favRows
    /\ UNCHANGED <<pageVars, collection, user, clock, favHookVars, flashVars, pairVars>>

removeFavoriteSettle(i) ==
    /\ calls[i].op = "removeFavorite"
    /\ calls[i].phase = "answered"
    /\ LET c == calls[i]
       IN  IF c.resp.error # "none"
           THEN /\ favError' = CaughtError(c.resp, "Failed to remove favorite")
                /\ calls' = Settle(i, Return(FALSE))
                /\ UNCHANGED favorites
           ELSE /\ favorites' = RemoveFavoriteOnSuccess(c.cap, c.arg[1])
                /\ calls' = Settle(i, Return(TRUE))
                /\ UNCHANGED favError
    /\ deleteConfirm' = AfterDelete(calls[i])
    /\ UNCHANGED <<mounted, studyVars, collection, user, clock, favStoreVars, favLoading, flashVars, pairVars>>

NextFavorites ==
    \E i \in CallIds :
        \/ fetchFavorites(i)
        \/ fetchFavoritesStore(i)
        \/ fetchFavoritesSettle(i)
        \/ \E w \in WordInputs : addFavorite(i, w)
        \/ addFavoriteStore(i)
        \/ addFavoriteSettle(i)
        \/ \E w \in RemoveInputs : removeFavorite(i, w)
        \/ removeFavoriteStore(i)
        \/ removeFavoriteSettle(i)

\* Rows the table may hold when the page is opened: none, one of the user's
\* own earlier favorites, or the same word favorited by another user.
FavInitRows ==
    { <<>>,
      <<FavRow(Me, <<"a">>)>>,
      <<FavRow(Other, <<"a">>), FavRow(Me, <<"b">>)>> }

InitFavorites ==
    /\ favRows \in IF collection \in {"favorites", "FavoritesPage"} THEN FavInitRows ELSE {<<>>}
    /\ favorites \in {<<>>, FavSelect(favRows, user)}
    /\ favLoading = FALSE
    /\ favError = NoError

-----------------------------------------------------------------------------
(* Tables flashcard_decks, flashcard_cards: row-level security by deck owner *)

DeckRow(id, owner, name) == [id |-> id, owner |-> owner, name |-> name]

CardRow(id, deck, front, back, order) ==
    [id |-> id, deck_id |-> deck, front |-> front, back |-> back, order_index |-> order]

\* The policies of flashcard_cards: the row's deck belongs to auth.uid()
OwnsDeck(dRows, uid, deckId) ==
    \E k \in DOMAIN dRows : dRows[k].id = deckId /\ dRows[k].owner = uid

\* flashcard_cards(count)
CardCount(cRows, deckId) ==
    Cardinality({ k \in DOMAIN cRows : cRows[k].deck_id = deckId })

\* FlashcardDeck, as fetchDecks and createDeck build it
Deck(id, name, count) == [id |-> id, name |-> name, card_count |-> count]

\* select ... from flashcard_decks where user_id = uid order by created_at desc
DeckSelect(dRows, cRows, uid) ==
    LET mine == SelectSeq(dRows, LAMBDA r : r.owner = uid)
    IN  Reverse([k \in DOMAIN mine |->
                    Deck(mine[k].id, mine[k].name, CardCount(cRows, mine[k].id))])

\* insert into flashcard_decks: with check (auth.uid() = user_id), unique(user_id, name)
DeckInsert(dRows, uid, owner, name, id) ==
    IF uid # owner
    THEN [rows |-> dRows, resp |-> Failed("42501")]
    ELSE IF \E k \in DOMAIN dRows : dRows[k].owner = owner /\ dRows[k].name = name
    THEN [rows |-> dRows, resp |-> UniqueViolation]
    ELSE [rows |-> Append(dRows, DeckRow(id, owner, name)),
          resp |-> Ok(<<DeckRow(id, owner, name)>>)]

\* delete from flashcard_decks where id = deckId returning *: only rows the
\* policy lets auth.uid() delete are touched
DeckDelete(dRows, uid, deckId) ==
    LET hit(r) == r.id = deckId /\ r.owner = uid
        gone == SelectSeq(dRows, LAMBDA r : hit(r))
    IN  [rows |-> SelectSeq(dRows, LAMBDA r : ~hit(r)),
         resp |-> [Ok(gone) EXCEPT !.affected = Len(gone)]]

\* on delete cascade: the rows of a table whose deck is gone go with it
Cascade(rows, dRows) ==
    SelectSeq(rows, LAMBDA r : \E k \in DOMAIN dRows : dRows[k].id = r.deck_id)

\* order by order_index asc; rows with equal keys keep their creation order
RECURSIVE SortByOrderIndex(_)
SortByOrderIndex(rows) ==
    IF rows = <<>> THEN <<>>
    ELSE LET low == CHOOSE k \in DOMAIN rows :
                        \A m \in DOMAIN rows :
                            \/ rows[k].order_index < rows[m].order_index
                            \/ rows[k].order_index = rows[m].order_index /\ k <= m
         IN  <<rows[low]>> \o
             SortByOrderIndex([m \in 1..(Len(rows) - 1) |->
                                  IF m < low THEN rows[m] ELSE rows[m + 1]])

\* select * from flashcard_cards where deck_id = deckId order by order_index
CardSelect(cRows, dRows, uid, deckId) ==
    SortByOrderIndex(SelectSeq(cRows,
        LAMBDA r : r.deck_id = deckId /\ OwnsDeck(dRows, uid, r.deck_id)))

\* insert into flashcard_cards ... returning *: the deck must exist (foreign
\* key) and belong to auth.uid() (policy)
CardInsert(cRows, dRows, uid, row) ==
    IF ~OwnsDeck(dRows, uid, row.deck_id)
    THEN [rows |-> cRows, resp |-> Failed("42501")]
    ELSE [rows |-> Append(cRows, row), resp |-> Ok(<<row>>)]

\* delete from flashcard_cards where id = cardId (no select())
CardDelete(cRows, dRows, uid, cardId) ==
    LET hit(r) == r.id = cardId /\ OwnsDeck(dRows, uid, r.deck_id)
        left == SelectSeq(cRows, LAMBDA r : ~hit(r))
    IN  [rows |-> left, resp |-> [Ok(<<>>) EXCEPT !.affected = Len(cRows) - Len(left)]]

\* update flashcard_cards set front, back where id = cardId returning *, then
\* single(): anything but one row is the error PGRST116
CardUpdate(cRows, dRows, uid, cardId, front, back) ==
    LET hit(r) == r.id = cardId /\ OwnsDeck(dRows, uid, r.deck_id)
        new == [k \in DOMAIN cRows |->
                   IF hit(cRows[k])
                   THEN [cRows[k] EXCEPT !.front = front, !.back = back]
                   ELSE cRows[k]]
        got == SelectSeq(new, LAMBDA r : hit(r))
    IN  IF Len(got) = 1
        THEN [rows |-> new, resp |-> [Ok(got) EXCEPT !.affected = 1]]
        ELSE [rows |-> cRows, resp |-> Failed("PGRST116")]

-----------------------------------------------------------------------------
(* useFlashcards: decks *)

DeckNames == {"n1", "n2"}

\* Deck ids a caller may pass: an own deck, another user's deck, no deck.
DeckIdInputs == {1, 2, 9}

NotFoundMessage == "Deck not found or you don't have permission to delete it"

\* setDecks([newDeck, ...decks])
CreateDeckOnSuccess(captured, row) == <<Deck(row.id, row.name, 0)>> \o captured

\* setDecks(decks.filter((d) => d.id !== deckId))
DeleteDeckOnSuccess(captured, deckId) == SelectSeq(captured, LAMBDA d : d.id # deckId)

\* A delete that trusts the absence of an error, as deleteCard does
DeleteOutcomeUnchecked(resp) == IF resp.error # "none" THEN "failed" ELSE "deleted"

\* if (supabaseError) throw ...; if (!data || data.length === 0) ... return false
DeleteDeckOutcome(resp) ==
    IF resp.error # "none" THEN "failed"
    ELSE IF Len(resp.data) = 0 THEN "notFound"
    ELSE "deleted"

fetchDecks(i) ==
    /\ collection = "decks"
    /\ CanCall(i)
    /\ IF user = "null"
       THEN /\ calls' = [calls EXCEPT ![i] = Returned("fetchDecks", <<>>, Return(TRUE))]
            /\ UNCHANGED flashHookVars
       ELSE /\ calls' = [calls EXCEPT ![i] = NewCall("fetchDecks", <<>>, <<>>)]
            /\ loading' = TRUE
            /\ error' = NoError
            /\ UNCHANGED <<decks, cards, progress>>
    /\ UNCHANGED <<pageVars, collection, user, clock, favVars, flashStoreVars, pairVars>>

fetchDecksStore(i) ==
    /\ calls[i].op = "fetchDecks"
    /\ calls[i].phase = "sent"
    /\ \/ calls' = Answer(i, Ok(DeckSelect(deckRows, cardRows, calls[i].uid)))
       \/ \E f \in StoreFaults : calls' = Answer(i, f)
    /\ UNCHANGED <<pageVars, collection, user, clock, favVars, flashVars, pairVars>>

fetchDecksSettle(i) ==
    /\ calls[i].op = "fetchDecks"
    /\ calls[i].phase = "answered"
    /\ IF calls[i].resp.error # "none"
       THEN /\ error' = CaughtError(calls[i].resp, "Failed to fetch decks")
            /\ UNCHANGED decks
       ELSE /\ decks' = calls[i].resp.data
            /\ UNCHANGED error
    /\ loading' = FALSE
    /\ calls' = Settle(i, Return(TRUE))
    /\ isFlipped' = FlippedAfter(decks', selectedDeckId, cards, currentCardIndex)
    /\ deleteConfirm' = IF calls[i].by = "handleDeleteCard" THEN NoSelection ELSE deleteConfirm
    /\ UNCHANGED <<mounted, selectedDeckId, currentCardIndex, collection, user, clock, favVars, flashStoreVars, cards, progress, pairVars>>

createDeck(i, name) ==
    /\ collection = "decks"
    /\ CanCall(i)
    /\ IF user = "null"
       THEN calls' = [calls EXCEPT ![i] = Returned("createDeck", <<name>>, Return(FALSE))]
       ELSE calls' = [calls EXCEPT ![i] = NewCall("createDeck", <<name>>, decks)]
    /\ UNCHANGED <<pageVars, collection, user, clock, favVars, flashVars, pairVars>>

createDeckStore(i) ==
    /\ calls[i].op = "createDeck"
    /\ calls[i].phase = "sent"
    /\ \/ LET r == DeckInsert(deckRows, calls[i].uid, calls[i].uid, calls[i].arg[1], NewId(i))
          IN  /\ deckRows' = r.rows
              /\ calls' = Answer(i, r.resp)
       \/ \E f \in StoreFaults :
             /\ calls' = Answer(i, f)
             /\ UNCHANGED deckRows
    /\ UNCHANGED <<pageVars, collection, user, clock, favVars, cardRows, progRows, flashHookVars, pairVars>>

createDeckSettle(i) ==
    /\ calls[i].op = "createDeck"
    /\ calls[i].phase = "answered"
    /\ LET c == calls[i]
       IN  IF c.resp.error # "none"
           THEN /\ error' = CaughtError(c.resp, "Failed to create deck")
                /\ calls' = Settle(i, Return(FALSE))
                /\ UNCHANGED decks
           ELSE /\ decks' = CreateDeckOnSuccess(c.cap, c.resp.data[1])
                /\ calls' = Settle(i, ReturnItem(Head(CreateDeckOnSuccess(c.cap, c.resp.data[1]))))
                /\ UNCHANGED error
    /\ isFlipped' = FlippedAfter(decks', selectedDeckId, cards, currentCardIndex)
    /\ UNCHANGED <<mounted, deleteConfirm, selectedDeckId, currentCardIndex, collection, user, clock, favVars, flashStoreVars, cards, progress, loading, pairVars>>

deleteDeck(i, deckId) ==
    /\ collection = "decks"
    /\ CanCall(i)
    /\ IF user = "null"
       THEN /\ calls' = [calls EXCEPT ![i] = Returned("deleteDeck", <<deckId>>, Return(FALSE))]
            /\ error' = "User not authenticated"
       ELSE /\ calls' = [calls EXCEPT ![i] = NewCall("deleteDeck", <<deckId>>, decks)]
            /\ UNCHANGED error
    /\ UNCHANGED <<pageVars, collection, user, clock, favVars, flashStoreVars, decks, cards, progress, loading, pairVars>>

deleteDeckStore(i) ==
    /\ calls[i].op = "deleteDeck"
    /\ calls[i].phase = "sent"
    /\ \/ LET r == DeckDelete(deckRows, calls[i].uid, calls[i].arg[1])
          IN  /\ deckRows' = r.rows
              /\ cardRows' = Cascade(cardRows, r.rows)
              /\ progRows' = Cascade(progRows, r.rows)
              /\ calls' = Answer(i, r.resp)
       \/ \E f \in StoreFaults :
             /\ calls' = Answer(i, f)
             /\ UNCHANGED flashStoreVars
    /\ UNCHANGED <<pageVars, collection, user, clock, favVars, flashHookVars, pairVars>>

deleteDeckSettle(i) ==
    /\ calls[i].op = "deleteDeck"
    /\ calls[i].phase = "answered"
    /\ LET c == calls[i]
       IN  IF DeleteDeckOutcome(c.resp) = "failed"
           THEN /\ error' = CaughtError(c.resp, "Failed to delete deck")
                /\ calls' = Settle(i, Return(FALSE))
                /\ UNCHANGED decks
           ELSE IF DeleteDeckOutcome(c.resp) = "notFound"
           THEN /\ error' = NotFoundMessage
                /\ calls' = Settle(i, Return(FALSE))
                /\ UNCHANGED decks
           ELSE /\ decks' = DeleteDeckOnSuccess(c.cap, c.arg[1])
                /\ calls' = Settle(i, Return(TRUE))
                /\ UNCHANGED error
    /\ UNCHANGED <<pageVars, collection, user, clock, favVars, flashStoreVars, cards, progress, loading, pairVars>>

NextDecks ==
    \E i \in CallIds :
        \/ fetchDecks(i)
        \/ fetchDecksStore(i)
        \/ fetchDecksSettle(i)
        \/ \E n \in DeckNames : createDeck(i, n)
        \/ createDeckStore(i)
        \/ createDeckSettle(i)
        \/ \E d \in DeckIdInputs : deleteDeck(i, d)
        \/ deleteDeckStore(i)
        \/ deleteDeckSettle(i)

\* The decks the tables hold when the page is opened: an own deck with one
\* card, and a deck of another user.
DeckInitRows == <<DeckRow(1, Me, "n1"), DeckRow(2, Other, "n2")>>

CardInitRows == { <<>>, <<CardRow(1, 1, "q", "a", 0)>> }

-----------------------------------------------------------------------------
(* useFlashcards: cards *)

\* Card ids a caller may pass: an own card, a card in another user's deck, no card.
CardIdInputs == {1, 2, 9}

\* The words of the generated phrase (useRandomPhrase), saved front-only.
PhraseWords == <<"w1", "w2", "w3">>

\* setCards([...cards, data])
AddCardOnSuccess(captured, row) == Append(captured, row)

\* order_index: cards.length
AddCardOrderIndex(captured) == Len(captured)

\* setCards(cards.filter((c) => c.id !== cardId))
DeleteCardOnSuccess(captured, cardId) == SelectSeq(captured, LAMBDA c : c.id # cardId)

\* setCards(cards.map((c) => (c.id === cardId ? data : c)))
UpdateCardOnSuccess(captured, cardId, row) ==
    [k \in DOMAIN captured |-> IF captured[k].id = cardId THEN row ELSE captured[k]]

fetchCards(i, deckId) ==
    /\ collection = "cards"
    /\ CanCall(i)
    /\ calls' = [calls EXCEPT ![i] = NewCall("fetchCards", <<deckId>>, <<>>)]
    /\ loading' = TRUE
    /\ error' = NoError
    /\ UNCHANGED <<pageVars, collection, user, clock, favVars, flashStoreVars, decks, cards, progress, pairVars>>

fetchCardsStore(i) ==
    /\ calls[i].op = "fetchCards"
    /\ calls[i].phase = "sent"
    /\ \/ calls' = Answer(i, Ok(CardSelect(cardRows, deckRows, calls[i].uid, calls[i].arg[1])))
       \/ \E f \in StoreFaults : calls' = Answer(i, f)
    /\ UNCHANGED <<pageVars, collection, user, clock, favVars, flashVars, pairVars>>

fetchCardsSettle(i) ==
    /\ calls[i].op = "fetchCards"
    /\ calls[i].phase = "answered"
    /\ IF calls[i].resp.error # "none"
       THEN /\ error' = CaughtError(calls[i].resp, "Failed to fetch cards")
            /\ UNCHANGED cards
       ELSE /\ cards' = calls[i].resp.data
            /\ UNCHANGED error
    /\ loading' = FALSE
    /\ calls' = Settle(i, Return(TRUE))
    /\ isFlipped' = FlippedAfter(decks, selectedDeckId, cards', currentCardIndex)
    /\ UNCHANGED <<mounted, deleteConfirm, selectedDeckId, currentCardIndex, collection, user, clock, favVars, flashStoreVars, decks, progress, pairVars>>

\* addCard called from a handler of the current render: its closure holds the
\* cards of now.
addCard(i, deckId, front, back) ==
    /\ collection = "cards"
    /\ CanCall(i)
    /\ calls' = [calls EXCEPT ![i] = NewCall("addCard", <<deckId, front, back>>, cards)]
    /\ UNCHANGED <<pageVars, collection, user, clock, favVars, flashVars, pairVars>>

\* RandomPhrasePage.handleSaveWordsAsCards: the first pass of the loop
\* `for (const word of words) await addCard(selectedDeckId, word.word, '')`
handleSaveWordsAsCards(i, deckId) ==
    /\ collection \in {"cards", "RandomPhrasePage"}
    /\ mounted
    /\ CanCall(i)
    /\ calls' = [calls EXCEPT ![i] =
           [NewCall("addCard", <<deckId, PhraseWords[1], "">>, cards)
               EXCEPT !.by = "handleSaveWordsAsCards"]]
    /\ UNCHANGED <<pageVars, collection, user, clock, favVars, flashVars, pairVars>>

\* The next pass of the loop: the addCard of the render that created the
\* handler is called again, with the cards that render captured.
handleSaveWordsAsCardsLoop(i) ==
    /\ collection \in {"cards", "RandomPhrasePage"}
    /\ CanCall(i)
    /\ i > 1
    /\ calls[i - 1].by = "handleSaveWordsAsCards"
    /\ calls[i - 1].phase = "done"
    /\ \E k \in 1..(Len(PhraseWords) - 1) :
          /\ calls[i - 1].arg[2] = PhraseWords[k]
          /\ calls' = [calls EXCEPT ![i] =
                 [NewCall("addCard", <<calls[i - 1].arg[1], PhraseWords[k + 1], "">>,
                          calls[i - 1].cap)
                     EXCEPT !.by = "handleSaveWordsAsCards", !.uid = calls[i - 1].uid]]
    /\ UNCHANGED <<pageVars, collection, user, clock, favVars, flashVars, pairVars>>

addCardStore(i) ==
    /\ calls[i].op = "addCard"
    /\ calls[i].phase = "sent"
    /\ \/ LET c == calls[i]
              r == CardInsert(cardRows, deckRows, c.uid,
                     CardRow(NewId(i), c.arg[1], c.arg[2], c.arg[3], AddCardOrderIndex(c.cap)))
          IN  /\ cardRows' = r.rows
              /\ calls' = Answer(i, r.resp)
       \/ \E f \in StoreFaults :
             /\ calls' = Answer(i, f)
             /\ UNCHANGED cardRows
    /\ UNCHANGED <<pageVars, collection, user, clock, favVars, deckRows, progRows, flashHookVars, pairVars>>

addCardSettle(i) ==
    /\ calls[i].op = "addCard"
    /\ calls[i].phase = "answered"
    /\ LET c == calls[i]
       IN  IF c.resp.error # "none"
           THEN /\ error' = CaughtError(c.resp, "Failed to add card")
                /\ calls' = Settle(i, Return(FALSE))
                /\ UNCHANGED cards
           ELSE /\ cards' = AddCardOnSuccess(c.cap, c.resp.data[1])
                /\ calls' = Settle(i, ReturnItem(c.resp.data[1]))
                /\ UNCHANGED error
    /\ isFlipped' = FlippedAfter(decks, selectedDeckId, cards', currentCardIndex)
    /\ UNCHANGED <<mounted, deleteConfirm, selectedDeckId, currentCardIndex, collection, user, clock, favVars, flashStoreVars, decks, progress, loading, pairVars>>

deleteCard(i, cardId) ==
    /\ collection = "cards"
    /\ CanCall(i)
    /\ calls' = [calls EXCEPT ![i] = NewCall("deleteCard", <<cardId>>, cards)]
    /\ UNCHANGED <<pageVars, collection, user, clock, favVars, flashVars, pairVars>>

deleteCardStore(i) ==
    /\ calls[i].op = "deleteCard"
    /\ calls[i].phase = "sent"
    /\ \/ LET r == CardDelete(cardRows, deckRows, calls[i].uid, calls[i].arg[1])
          IN  /\ cardRows' = r.rows
              /\ calls' = Answer(i, r.resp)
       \/ \E f \in StoreFaults :
             /\ calls' = Answer(i, f)
             /\ UNCHANGED cardRows
    /\ UNCHANGED <<pageVars, collection, user, clock, favVars, deckRows, progRows, flashHookVars, pairVars>>

deleteCardSettle(i) ==
    /\ calls[i].op = "deleteCard"
    /\ calls[i].phase = "answered"
    /\ LET c == calls[i]
       IN  IF c.resp.error # "none"
           THEN /\ error' = CaughtError(c.resp, "Failed to delete card")
                /\ calls' = Settle(i, Return(FALSE))
                /\ UNCHANGED cards
           ELSE /\ cards' = DeleteCardOnSuccess(c.cap, c.arg[1])
                /\ calls' = Settle(i, Return(TRUE))
                /\ UNCHANGED error
    /\ currentCardIndex' = IndexAfterDelete(calls[i])
    /\ deleteConfirm' = AfterDeleteCard(calls[i])
    /\ isFlipped' = FlippedAfter(decks, selectedDeckId, cards', currentCardIndex')
    /\ UNCHANGED <<mounted, selectedDeckId, collection, user, clock, favVars, flashStoreVars, decks, progress, loading, pairVars>>

updateCard(i, cardId, front, back) ==
    /\ collection = "cards"
    /\ CanCall(i)
    /\ calls' = [calls EXCEPT ![i] = NewCall("updateCard", <<cardId, front, back>>, cards)]
    /\ UNCHANGED <<pageVars, collection, user, clock, favVars, flashVars, pairVars>>

updateCardStore(i) ==
    /\ calls[i].op = "updateCard"
    /\ calls[i].phase = "sent"
    /\ \/ LET c == calls[i]
              r == CardUpdate(cardRows, deckRows, c.uid, c.arg[1], c.arg[2], c.arg[3])
          IN  /\ cardRows' = r.rows
              /\ calls' = Answer(i, r.resp)
       \/ \E f \in StoreFaults :
             /\ calls' = Answer(i, f)
             /\ UNCHANGED cardRows
    /\ UNCHANGED <<pageVars, collection, user, clock, favVars, deckRows, progRows, flashHookVars, pairVars>>

updateCardSettle(i) ==
    /\ calls[i].op = "updateCard"
    /\ calls[i].phase = "answered"
    /\ LET c == calls[i]
       IN  IF c.resp.error # "none"
           THEN /\ error' = CaughtError(c.resp, "Failed to update card")
                /\ calls' = Settle(i, Return(FALSE))
                /\ UNCHANGED cards
           ELSE /\ cards' = UpdateCardOnSuccess(c.cap, c.arg[1], c.resp.data[1])
                /\ calls' = Settle(i, ReturnItem(c.resp.data[1]))
                /\ UNCHANGED error
    /\ UNCHANGED <<pageVars, collection, user, clock, favVars, flashStoreVars, decks, progress, loading, pairVars>>

NextCards ==
    \E i \in CallIds :
        \/ \E d \in {1, 2} : fetchCards(i, d)
        \/ fetchCardsStore(i)
        \/ fetchCardsSettle(i)
        \/ \E d \in {1, 2} : addCard(i, d, "q2", "a2")
        \/ \E d \in {1, 2} : handleSaveWordsAsCards(i, d)
        \/ handleSaveWordsAsCardsLoop(i)
        \/ addCardStore(i)
        \/ addCardSettle(i)
        \/ \E c \in CardIdInputs : deleteCard(i, c)
        \/ deleteCardStore(i)
        \/ deleteCardSettle(i)
        \/ \E c \in CardIdInputs : updateCard(i, c, "q3", "a3")
        \/ updateCardStore(i)
        \/ updateCardSettle(i)

\* The cards the table holds when the page is opened: two in the user's deck,
\* one in the deck of another user.
CardsInitRows ==
    <<CardRow(1, 1, "q", "a", 0), CardRow(2, 2, "q", "a", 0), CardRow(3, 1, "q", "a", 1)>>

-----------------------------------------------------------------------------
(* Table flashcard_progress: unique(user_id, card_id), policies by owner *)

ProgressRow(id, owner, card, deck, correct, incorrect, at) ==
    [id |-> id, owner |-> owner, card_id |-> card, deck_id |-> deck,
     correct_count |-> correct, incorrect_count |-> incorrect, last_reviewed_at |-> at]

\* select * from flashcard_progress where user_id = owner and deck_id = deckId,
\* seen through the policy (auth.uid() = user_id)
ProgressSelect(rows, uid, owner, deckId) ==
    SelectSeq(rows, LAMBDA r : r.owner = uid /\ r.owner = owner /\ r.deck_id = deckId)

\* insert into flashcard_progress: with check (auth.uid() = user_id),
\* unique(user_id, card_id)
ProgressInsert(rows, uid, row) ==
    IF uid # row.owner
    THEN [rows |-> rows, resp |-> Failed("42501")]
    ELSE IF \E k \in DOMAIN rows : rows[k].owner = row.owner /\ rows[k].card_id = row.card_id
    THEN [rows |-> rows, resp |-> UniqueViolation]
    ELSE [rows |-> Append(rows, row), resp |-> Ok(<<>>)]

\* update flashcard_progress set correct_count, incorrect_count,
\* last_reviewed_at where id = id (no select())
ProgressUpdate(rows, uid, id, correct, incorrect, at) ==
    LET hit(r) == r.id = id /\ r.owner = uid
        new == [k \in DOMAIN rows |->
                   IF hit(rows[k])
                   THEN [rows[k] EXCEPT !.correct_count = correct,
                                        !.incorrect_count = incorrect,
                                        !.last_reviewed_at = at]
                   ELSE rows[k]]
    IN  [rows |-> new,
         resp |-> [Ok(<<>>) EXCEPT
                      !.affected = Cardinality({ k \in DOMAIN rows : hit(rows[k]) })]]

-----------------------------------------------------------------------------
(* useFlashcards: progress *)

\* progressMap[p.card_id] = p, for every row in order
ProgressMap(rows) ==
    [c \in { rows[k].card_id : k \in DOMAIN rows } |->
        rows[CHOOSE k \in DOMAIN rows :
                 /\ rows[k].card_id = c
                 /\ \A m \in DOMAIN rows : rows[m].card_id = c => m <= k]]

\* A counter that is written back as it was read
KeepCorrect(existing, correct) == existing.correct_count

\* correct_count: existing.correct_count + (correct ? 1 : 0)
NextCorrect(existing, correct) == existing.correct_count + (IF correct THEN 1 ELSE 0)

\* incorrect_count: existing.incorrect_count + (correct ? 0 : 1)
NextIncorrect(existing, correct) == existing.incorrect_count + (IF correct THEN 0 ELSE 1)

fetchProgress(i, deckId) ==
    /\ collection = "progress"
    /\ CanCall(i)
    /\ IF user = "null"
       THEN calls' = [calls EXCEPT ![i] = Returned("fetchProgress", <<deckId>>, Return(TRUE))]
       ELSE calls' = [calls EXCEPT ![i] = NewCall("fetchProgress", <<deckId>>, <<>>)]
    /\ UNCHANGED <<pageVars, collection, user, clock, favVars, flashVars, pairVars>>

fetchProgressStore(i) ==
    /\ calls[i].op = "fetchProgress"
    /\ calls[i].phase = "sent"
    /\ \/ calls' = Answer(i, Ok(ProgressSelect(progRows, calls[i].uid, calls[i].uid,
                                              calls[i].arg[1])))
       \/ \E f \in StoreFaults : calls' = Answer(i, f)
    /\ UNCHANGED <<pageVars, collection, user, clock, favVars, flashVars, pairVars>>

fetchProgressSettle(i) ==
    /\ calls[i].op = "fetchProgress"
    /\ calls[i].phase = "answered"
    /\ IF calls[i].resp.error # "none"
       THEN UNCHANGED progress
       ELSE progress' = ProgressMap(calls[i].resp.data)
    /\ calls' = Settle(i, Return(TRUE))
    /\ UNCHANGED <<pageVars, collection, user, clock, favVars, flashStoreVars, decks, cards, loading, error, pairVars>>

\* The call reads `progress[cardId]` of its render and the clock (new Date()),
\* which has not gone back since the last reading.
recordProgress(i, cardId, deckId, correct) ==
    /\ collection = "progress"
    /\ CanCall(i)
    /\ \E now \in {clock, clock + 1} :
          /\ clock' = now
          /\ IF user = "null"
             THEN calls' = [calls EXCEPT ![i] =
                      Returned("recordProgress", <<cardId, deckId, correct, now>>, Return(FALSE))]
             ELSE calls' = [calls EXCEPT ![i] =
                      NewCall("recordProgress", <<cardId, deckId, correct, now>>,
                              IF cardId \in DOMAIN progress THEN <<progress[cardId]>> ELSE <<>>)]
    /\ UNCHANGED <<pageVars, collection, user, favVars, flashVars, pairVars>>

\* The update (a record exists in the mirror) or the insert (none does)
recordProgressStore(i) ==
    /\ calls[i].op = "recordProgress"
    /\ calls[i].phase = "sent"
    /\ \/ LET c == calls[i]
              r == IF c.cap # <<>>
                   THEN ProgressUpdate(progRows, c.uid, c.cap[1].id,
                            NextCorrect(c.cap[1], c.arg[3]),
                            NextIncorrect(c.cap[1], c.arg[3]), c.arg[4])
                   ELSE ProgressInsert(progRows, c.uid,
                            ProgressRow(NewId(i), c.uid, c.arg[1], c.arg[2],
                                IF c.arg[3] THEN 1 ELSE 0, IF c.arg[3] THEN 0 ELSE 1,
                                c.arg[4]))
          IN  /\ progRows' = r.rows
              /\ calls' = Answer(i, r.resp)
       \/ \E f \in StoreFaults :
             /\ calls' = Answer(i, f)
             /\ UNCHANGED progRows
    /\ UNCHANGED <<pageVars, collection, user, clock, favVars, deckRows, cardRows, flashHookVars, pairVars>>

\* After the write: `throw supabaseError` (return false) or `await
\* fetchProgress(deckId)`, whose request is now sent
recordProgressWritten(i) ==
    /\ calls[i].op = "recordProgress"
    /\ calls[i].phase = "answered"
    /\ IF calls[i].resp.error # "none"
       THEN calls' = Settle(i, Return(FALSE))
       ELSE calls' = [calls EXCEPT ![i].phase = "refetch"]
    /\ UNCHANGED <<pageVars, collection, user, clock, favVars, flashVars, pairVars>>

recordProgressRefetchStore(i) ==
    /\ calls[i].op = "recordProgress"
    /\ calls[i].phase = "refetch"
    /\ \/ calls' = [calls EXCEPT ![i].phase = "refetched",
                                 ![i].resp = Ok(ProgressSelect(progRows, calls[i].uid,
                                                   calls[i].uid, calls[i].arg[2]))]
       \/ \E f \in StoreFaults :
             calls' = [calls EXCEPT ![i].phase = "refetched", ![i].resp = f]
    /\ UNCHANGED <<pageVars, collection, user, clock, favVars, flashVars, pairVars>>

\* fetchProgress settles inside recordProgress (its error is only logged), then
\* `return true`
recordProgressSettle(i) ==
    /\ calls[i].op = "recordProgress"
    /\ calls[i].phase = "refetched"
    /\ IF calls[i].resp.error # "none"
       THEN UNCHANGED progress
       ELSE progress' = ProgressMap(calls[i].resp.data)
    /\ calls' = Settle(i, Return(TRUE))
    /\ UNCHANGED <<pageVars, collection, user, clock, favVars, flashStoreVars, decks, cards, loading, error, pairVars>>

NextProgress ==
    \E i \in CallIds :
        \/ fetchProgress(i, 1)
        \/ fetchProgressStore(i)
        \/ fetchProgressSettle(i)
        \/ \E b \in BOOLEAN : recordProgress(i, 1, 1, b)
        \/ recordProgressStore(i)
        \/ recordProgressWritten(i)
        \/ recordProgressRefetchStore(i)
        \/ recordProgressSettle(i)

\* The progress the table holds when the deck is opened: none, or one earlier
\* review of card 1.
ProgressInitRows == { <<>>, <<ProgressRow(1, Me, 1, 1, 1, 0, 0)>> }

-----------------------------------------------------------------------------
(* Table word_pairs behind the word-pair service (/api/word-pairs) *)

NullText == <<"(null)">>

PairRow(id, owner, word1, word2, type, description) ==
    [id |-> id, owner |-> owner, word1 |-> word1, word2 |-> word2,
     pair_type |-> type, description |-> description]

\* A request that fails: makeAuthenticatedRequest throws an Error with the
\* service's message
ServiceFault == [Failed("Request failed") EXCEPT !.isError = TRUE]

\* list(ownerId, order, page, limit) -> {items, total}: the owner's pairs,
\* newest first, one page of them, and their number
PairList(rows, uid, page, limit) ==
    LET mine == Reverse(SelectSeq(rows, LAMBDA r : r.owner = uid))
        from == (page - 1) * limit + 1
        to == IF page * limit < Len(mine) THEN page * limit ELSE Len(mine)
    IN  [data |-> SubSeq(mine, from, to), count |-> Len(mine), page |-> page,
         limit |-> limit]

\* insert(ownerId, fields) -> item: the service sets user_id from the session
PairInsert(rows, uid, id, payload) ==
    LET row == PairRow(id, uid, payload.word1, payload.word2, payload.pair_type,
                       payload.description)
    IN  [rows |-> Append(rows, row), resp |-> Ok(<<row>>)]

\* update(ownerId, id, partialFields) -> item: the fields of the payload are
\* written, the others are kept; no row of the owner with that id is a failure
PairUpdate(rows, uid, id, payload) ==
    LET hit(r) == r.id = id /\ r.owner = uid
        write(r) == [f \in DOMAIN r |-> IF f \in DOMAIN payload THEN payload[f] ELSE r[f]]
        new == [k \in DOMAIN rows |-> IF hit(rows[k]) THEN write(rows[k]) ELSE rows[k]]
        got == SelectSeq(new, LAMBDA r : hit(r))
    IN  IF got = <<>>
        THEN [rows |-> rows, resp |-> [Failed("Not found") EXCEPT !.isError = TRUE]]
        ELSE [rows |-> new, resp |-> [Ok(got) EXCEPT !.affected = 1]]

\* delete(ownerId, id) -> affected rows: an empty list signals a no-op
PairDelete(rows, uid, id) ==
    LET hit(r) == r.id = id /\ r.owner = uid
        left == SelectSeq(rows, LAMBDA r : ~hit(r))
    IN  [rows |-> left, resp |-> [Ok(<<>>) EXCEPT !.affected = Len(rows) - Len(left)]]

-----------------------------------------------------------------------------
(* useWordPairs *)

\* pagination.limit of the initial state, and the default of fetchWordPairs
DefaultLimit == 20

\* description?.trim() || null
TrimOrNull(text) == IF Trim(text) = <<>> THEN NullText ELSE Trim(text)

\* payload of createWordPair
CreatePayload(word1, word2, pairType, description) ==
    [word1 |-> Trim(word1), word2 |-> Trim(word2), pair_type |-> pairType,
     description |-> TrimOrNull(description)]

PairFields == {"word1", "word2", "pair_type", "description"}

\* A payload that always carries the four fields of the form, a field that was
\* not passed as an empty value
FullPayload(updates) ==
    [f \in PairFields |->
        IF f \in DOMAIN updates
        THEN (IF f = "pair_type" THEN updates[f] ELSE Trim(updates[f]))
        ELSE (IF f = "pair_type" THEN "" ELSE <<>>)]

\* The fields of `updates` that updateWordPair copies: `if (updates.word1)`,
\* `if (updates.word2)`, `if (updates.pair_type)` (a value that is not empty),
\* `if ('description' in updates)`
UpdateFields(updates) ==
    { f \in DOMAIN updates :
        CASE f \in {"word1", "word2"} -> updates[f] # <<>>
          [] f = "pair_type" -> updates[f] # ""
          [] OTHER -> TRUE }

\* updatePayload of updateWordPair
UpdatePayload(updates) ==
    [f \in UpdateFields(updates) |->
        CASE f \in {"word1", "word2"} -> Trim(updates[f])
          [] f = "pair_type" -> updates[f]
          [] OTHER -> TrimOrNull(updates[f])]

\* err instanceof Error ? err.message : fallback
CaughtMessage(resp, fallback) == IF resp.isError THEN resp.error ELSE fallback

\* pairs: [newPair, ...prev.pairs], total: prev.pagination.total + 1
CreateWordPairOnSuccess(prev, row) ==
    [prev EXCEPT !.pairs = <<row>> \o prev.pairs, !.loading = FALSE,
                 !.pagination.total = prev.pagination.total + 1]

\* pairs: prev.pairs.map((p) => (p.id === pairId ? updatedPair : p))
UpdateWordPairOnSuccess(prev, pairId, row) ==
    [prev EXCEPT !.pairs = [k \in DOMAIN prev.pairs |->
                               IF prev.pairs[k].id = pairId THEN row ELSE prev.pairs[k]],
                 !.loading = FALSE]

\* A delete handler that removes the pair and keeps the total
DeleteWordPairKeepingTotal(prev, pairId) ==
    [prev EXCEPT !.pairs = SelectSeq(prev.pairs, LAMBDA q : q.id # pairId),
                 !.loading = FALSE]

\* pairs: prev.pairs.filter((p) => p.id !== pairId),
\* total: Math.max(0, prev.pagination.total - 1)
DeleteWordPairOnSuccess(prev, pairId) ==
    [prev EXCEPT !.pairs = SelectSeq(prev.pairs, LAMBDA q : q.id # pairId),
                 !.loading = FALSE,
                 !.pagination.total = IF prev.pagination.total - 1 > 0
                                      THEN prev.pagination.total - 1 ELSE 0]

\* A failure handler that only ends the loading state
WordPairsOnErrorUnrecorded(prev, message) == [prev EXCEPT !.loading = FALSE]

\* setState((prev) => ({ ...prev, error, loading: false }))
WordPairsOnError(prev, message) == [prev EXCEPT !.error = message, !.loading = FALSE]

\* A start that leaves the error of an earlier operation in place
WordPairsStartKeepingError(prev) == [prev EXCEPT !.loading = TRUE]

\* setState((prev) => ({ ...prev, loading: true, error: null }))
WordPairsStart(prev) == [prev EXCEPT !.loading = TRUE, !.error = NoError]

\* makeAuthenticatedRequest: without a session it throws before any request
PairCall(op, arg) ==
    IF user = "null"
    THEN [NewCall(op, arg, <<>>) EXCEPT
             !.phase = "answered",
             !.resp = [Failed("User must be authenticated") EXCEPT !.isError = TRUE]]
    ELSE NewCall(op, arg, <<>>)

fetchWordPairs(i, page, limit) ==
    /\ collection = "pairs"
    /\ CanCall(i)
    /\ calls' = [calls EXCEPT ![i] = PairCall("fetchWordPairs", <<page, limit>>)]
    /\ state' = WordPairsStart(state)
    /\ UNCHANGED <<pageVars, collection, user, clock, favVars, flashVars, pairRows>>

fetchWordPairsStore(i) ==
    /\ calls[i].op = "fetchWordPairs"
    /\ calls[i].phase = "sent"
    /\ \/ calls' = Answer(i, Ok(<<PairList(pairRows, calls[i].uid, calls[i].arg[1],
                                          calls[i].arg[2])>>))
       \/ calls' = Answer(i, ServiceFault)
    /\ UNCHANGED <<pageVars, collection, user, clock, favVars, flashVars, pairVars>>

fetchWordPairsSettle(i) ==
    /\ calls[i].op = "fetchWordPairs"
    /\ calls[i].phase = "answered"
    /\ LET c == calls[i]
       IN  IF c.resp.error # "none"
           THEN state' = WordPairsOnError(state, CaughtMessage(c.resp, "Failed to fetch word pairs"))
           ELSE state' = [state EXCEPT
                    !.pairs = c.resp.data[1].data,
                    !.loading = FALSE,
                    !.pagination = [page |-> c.resp.data[1].page,
                                    limit |-> c.resp.data[1].limit,
                                    total |-> c.resp.data[1].count]]
    /\ calls' = Settle(i, Return(calls[i].resp.error = "none"))
    /\ UNCHANGED <<pageVars, collection, user, clock, favVars, flashVars, pairRows>>

\* Math.ceil(total / limit)
CeilDiv(total, limit) == (total + limit - 1) \div limit

\* nextPage: maxPage
MaxPage(pagination) == CeilDiv(pagination.total, pagination.limit)

\* hasNextPage, as the hook returns it
hasNextPage ==
    state.pagination.page < CeilDiv(state.pagination.total, state.pagination.limit)

\* hasPrevPage, as the hook returns it
hasPrevPage == state.pagination.page > 1

\* nextPage(): `if (page < maxPage) fetchWordPairs(page + 1, limit)`; a call
\* that does not fetch changes nothing
nextPage(i) ==
    /\ collection = "pairs"
    /\ CanCall(i)
    /\ state.pagination.page < MaxPage(state.pagination)
    /\ calls' = [calls EXCEPT ![i] =
           [PairCall("fetchWordPairs", <<state.pagination.page + 1, state.pagination.limit>>)
               EXCEPT !.by = "nextPage"]]
    /\ state' = WordPairsStart(state)
    /\ UNCHANGED <<pageVars, collection, user, clock, favVars, flashVars, pairRows>>

\* prevPage(): `if (page > 1) fetchWordPairs(page - 1, limit)`
prevPage(i) ==
    /\ collection = "pairs"
    /\ CanCall(i)
    /\ state.pagination.page > 1
    /\ calls' = [calls EXCEPT ![i] =
           [PairCall("fetchWordPairs", <<state.pagination.page - 1, state.pagination.limit>>)
               EXCEPT !.by = "prevPage"]]
    /\ state' = WordPairsStart(state)
    /\ UNCHANGED <<pageVars, collection, user, clock, favVars, flashVars, pairRows>>

createWordPair(i, word1, word2, pairType, description) ==
    /\ collection = "pairs"
    /\ CanCall(i)
    /\ calls' = [calls EXCEPT ![i] =
           PairCall("createWordPair", <<CreatePayload(word1, word2, pairType, description)>>)]
    /\ state' = WordPairsStart(state)
    /\ UNCHANGED <<pageVars, collection, user, clock, favVars, flashVars, pairRows>>

createWordPairStore(i) ==
    /\ calls[i].op = "createWordPair"
    /\ calls[i].phase = "sent"
    /\ \/ LET r == PairInsert(pairRows, calls[i].uid, NewId(i), calls[i].arg[1])
          IN  /\ pairRows' = r.rows
              /\ calls' = Answer(i, r.resp)
       \/ /\ calls' = Answer(i, ServiceFault)
          /\ UNCHANGED pairRows
    /\ UNCHANGED <<pageVars, collection, user, clock, favVars, flashVars, state>>

\* On failure the error is recorded and rethrown to the caller
createWordPairSettle(i) ==
    /\ calls[i].op = "createWordPair"
    /\ calls[i].phase = "answered"
    /\ LET c == calls[i]
       IN  IF c.resp.error # "none"
           THEN /\ state' = WordPairsOnError(state, CaughtMessage(c.resp, "Failed to create word pair"))
                /\ calls' = Settle(i, Return(FALSE))
           ELSE /\ state' = CreateWordPairOnSuccess(state, c.resp.data[1])
                /\ calls' = Settle(i, ReturnItem(c.resp.data[1]))
    /\ UNCHANGED <<pageVars, collection, user, clock, favVars, flashVars, pairRows>>

updateWordPair(i, pairId, updates) ==
    /\ collection = "pairs"
    /\ CanCall(i)
    /\ calls' = [calls EXCEPT ![i] =
           PairCall("updateWordPair", <<pairId, updates, UpdatePayload(updates)>>)]
    /\ state' = WordPairsStart(state)
    /\ UNCHANGED <<pageVars, collection, user, clock, favVars, flashVars, pairRows>>

updateWordPairStore(i) ==
    /\ calls[i].op = "updateWordPair"
    /\ calls[i].phase = "sent"
    /\ \/ LET r == PairUpdate(pairRows, calls[i].uid, calls[i].arg[1], calls[i].arg[3])
          IN  /\ pairRows' = r.rows
              /\ calls' = Answer(i, r.resp)
       \/ /\ calls' = Answer(i, ServiceFault)
          /\ UNCHANGED pairRows
    /\ UNCHANGED <<pageVars, collection, user, clock, favVars, flashVars, state>>

updateWordPairSettle(i) ==
    /\ calls[i].op = "updateWordPair"
    /\ calls[i].phase = "answered"
    /\ LET c == calls[i]
       IN  IF c.resp.error # "none"
           THEN /\ state' = WordPairsOnError(state, CaughtMessage(c.resp, "Failed to update word pair"))
                /\ calls' = Settle(i, Return(FALSE))
           ELSE /\ state' = UpdateWordPairOnSuccess(state, c.arg[1], c.resp.data[1])
                /\ calls' = Settle(i, ReturnItem(c.resp.data[1]))
    /\ UNCHANGED <<pageVars, collection, user, clock, favVars, flashVars, pairRows>>

deleteWordPair(i, pairId) ==
    /\ collection = "pairs"
    /\ CanCall(i)
    /\ calls' = [calls EXCEPT ![i] = PairCall("deleteWordPair", <<pairId>>)]
    /\ state' = WordPairsStart(state)
    /\ UNCHANGED <<pageVars, collection, user, clock, favVars, flashVars, pairRows>>

deleteWordPairStore(i) ==
    /\ calls[i].op = "deleteWordPair"
    /\ calls[i].phase = "sent"
    /\ \/ LET r == PairDelete(pairRows, calls[i].uid, calls[i].arg[1])
          IN  /\ pairRows' = r.rows
              /\ calls' = Answer(i, r.resp)
       \/ /\ calls' = Answer(i, ServiceFault)
          /\ UNCHANGED pairRows
    /\ UNCHANGED <<pageVars, collection, user, clock, favVars, flashVars, state>>

deleteWordPairSettle(i) ==
    /\ calls[i].op = "deleteWordPair"
    /\ calls[i].phase = "answered"
    /\ LET c == calls[i]
       IN  IF c.resp.error # "none"
           THEN /\ state' = WordPairsOnError(state, CaughtMessage(c.resp, "Failed to delete word pair"))
                /\ calls' = Settle(i, Return(FALSE))
           ELSE /\ state' = DeleteWordPairOnSuccess(state, c.arg[1])
                /\ calls' = Settle(i, Return(TRUE))
    /\ deleteConfirm' = AfterDelete(calls[i])
    /\ UNCHANGED <<mounted, studyVars, collection, user, clock, favVars, flashVars, pairRows>>

\* The `updates` a caller passes to updateWordPair: one word, an empty word, a
\* word and the type, a blank description, and the four fields of the form.
UpdateInputs ==
    { [word1 |-> <<"b">>],
      [word1 |-> <<>>],
      [word2 |-> <<" ", "c">>, pair_type |-> "antonym"],
      [description |-> <<" ">>],
      [word1 |-> <<"b", " ">>, word2 |-> <<"c">>, pair_type |-> "related",
       description |-> <<"d">>] }

\* Pair ids a caller may pass: an own pair, another user's pair, no pair.
PairIdInputs == {1, 2, 9}

\* Page sizes a caller may pass besides the default: they split the user's
\* pairs over several pages
PageSizes == {1, 2}

\* Pages a caller may ask fetchWordPairs for: the last one lies beyond the
\* user's pairs
PageInputs == {1, 2, 3}

NextWordPairs ==
    \E i \in CallIds :
        \/ fetchWordPairs(i, 1, DefaultLimit)
        \/ \E p \in PageInputs, l \in PageSizes : fetchWordPairs(i, p, l)
        \/ nextPage(i)
        \/ prevPage(i)
        \/ fetchWordPairsStore(i)
        \/ fetchWordPairsSettle(i)
        \/ createWordPair(i, <<"x", " ">>, <<" ", "y">>, "custom", <<" ">>)
        \/ createWordPairStore(i)
        \/ createWordPairSettle(i)
        \/ \E u \in UpdateInputs : updateWordPair(i, 1, u)
        \/ updateWordPair(i, 9, [word1 |-> <<"b">>])
        \/ updateWordPairStore(i)
        \/ updateWordPairSettle(i)
        \/ \E q \in PairIdInputs : deleteWordPair(i, q)
        \/ deleteWordPairStore(i)
        \/ deleteWordPairSettle(i)

\* The pairs the table holds when the page is opened: two of the user, one of
\* another user.
PairInitRows ==
    <<PairRow(1, Me, <<"a">>, <<"b">>, "synonym", <<"d">>),
      PairRow(2, Other, <<"a">>, <<"b">>, "custom", NullText),
      PairRow(3, Me, <<"c">>, <<"d">>, "custom", NullText)>>

\* useState of useWordPairs
WordPairsInitState ==
    [pairs |-> <<>>, loading |-> FALSE, error |-> NoError,
     pagination |-> [page |-> 1, limit |-> DefaultLimit, total |-> 0]]

-----------------------------------------------------------------------------
(* makeAuthenticatedRequest: the request of useWordPairs to the word-pair service *)

\* The responses of the service: response.ok, response.statusText, whether the
\* body parses as JSON, and the `error` of the parsed body ("": none)
Responses ==
    { [ok |-> o, statusText |-> t, json |-> j, error |-> e] :
        o \in BOOLEAN, t \in {"Not Found", "Internal Server Error"}, j \in BOOLEAN,
        e \in {"", "Word pair not found"} }

\* await response.json().catch(() => ({ error: 'Unknown error' }))
ErrorData(response) ==
    IF response.json THEN [error |-> response.error] ELSE [error |-> "Unknown error"]

\* errorData.error || `Request failed: ${response.statusText}`
RequestErrorMessage(response) ==
    IF ErrorData(response).error # ""
    THEN ErrorData(response).error
    ELSE "Request failed: " \o response.statusText

\* makeAuthenticatedRequest up to `await fetch(...)`: without a session it
\* throws, with one the request is sent and `response` will be its answer
makeAuthenticatedRequest(i, response) ==
    /\ collection = "request"
    /\ CanCall(i)
    /\ calls' = [calls EXCEPT ![i] =
           IF user = "null"
           THEN [Returned("makeAuthenticatedRequest", <<response>>, Return(FALSE))
                    EXCEPT !.resp = [Failed("User must be authenticated") EXCEPT !.isError = TRUE]]
           ELSE NewCall("makeAuthenticatedRequest", <<response>>, <<>>)]
    /\ UNCHANGED <<pageVars, collection, user, clock, favVars, flashVars, pairVars>>

\* makeAuthenticatedRequest after `await fetch(...)`: it returns the body of a
\* response that is ok, and throws for any other
makeAuthenticatedRequestResponse(i) ==
    /\ calls[i].op = "makeAuthenticatedRequest"
    /\ calls[i].phase = "sent"
    /\ LET response == calls[i].arg[1]
       IN  calls' = [calls EXCEPT
               ![i].phase = "done",
               ![i].resp = IF response.ok
                           THEN Ok(<<>>)
                           ELSE [Failed(RequestErrorMessage(response)) EXCEPT !.isError = TRUE],
               ![i].ret = Return(response.ok)]
    /\ UNCHANGED <<pageVars, collection, user, clock, favVars, flashVars, pairVars>>

NextRequest ==
    \E i \in CallIds :
        \/ \E r \in Responses : makeAuthenticatedRequest(i, r)
        \/ makeAuthenticatedRequestResponse(i)

-----------------------------------------------------------------------------
(* Pages: the components that own the hook instances *)

Pages == {"FlashcardsPage", "RandomPhrasePage", "FavoritesPage", "WordPairsPage"}

\* text.trim(), over the texts the forms are filled with
TrimText(text) == IF text = " " THEN "" ELSE text

\* words.map((w) => w.word).join(', ')
WordList == "w1, w2, w3"

\* The user of the context changes (sign-out, sign-in) while the page is
\* mounted: the effect of the hook runs again, `if (user) fetchDecks()`,
\* `if (user) fetchFavorites()`.  Nothing else reacts to the change.
userChange(i, u) ==
    /\ collection \in {"FlashcardsPage", "FavoritesPage"}
    /\ mounted
    /\ u # user
    /\ user' = u
    /\ IF u = "null"
       THEN UNCHANGED <<calls, favHookVars, flashHookVars>>
       ELSE /\ CanCall(i)
            /\ IF collection = "FlashcardsPage"
               THEN /\ calls' = [calls EXCEPT ![i] =
                           [NewCall("fetchDecks", <<>>, <<>>)
                               EXCEPT !.uid = u, !.by = "useEffect"]]
                    /\ loading' = TRUE
                    /\ error' = NoError
                    /\ UNCHANGED <<decks, cards, progress, favHookVars>>
               ELSE /\ calls' = [calls EXCEPT ![i] =
                           [NewCall("fetchFavorites", <<>>, <<>>)
                               EXCEPT !.uid = u, !.by = "useEffect"]]
                    /\ favLoading' = TRUE
                    /\ favError' = NoError
                    /\ UNCHANGED <<favorites, flashHookVars>>
    /\ UNCHANGED <<pageVars, collection, clock, favStoreVars, flashStoreVars, pairVars>>

\* The page is left: the component and its hook instances are torn down.  The
\* hooks register no cleanup, and no continuation consults anything before it
\* calls its setters.
unmount ==
    /\ collection \in Pages
    /\ mounted
    /\ mounted' = FALSE
    /\ UNCHANGED <<deleteConfirm, studyVars, collection, user, calls, clock, favVars, flashVars, pairVars>>

\* FlashcardsPage.handleCreateDeck
handleCreateDeck(i, newDeckName) ==
    /\ collection = "FlashcardsPage"
    /\ mounted
    /\ CanCall(i)
    /\ TrimText(newDeckName) # ""
    /\ calls' = [calls EXCEPT ![i] =
           [(IF user = "null"
             THEN Returned("createDeck", <<newDeckName>>, Return(FALSE))
             ELSE NewCall("createDeck", <<newDeckName>>, decks))
               EXCEPT !.by = "handleCreateDeck"]]
    /\ UNCHANGED <<pageVars, collection, user, clock, favVars, flashVars, pairVars>>

\* FlashcardsPage.handleAddCard, up to the awaited updateCard or addCard
handleAddCard(i, editingCardId, cardFront, cardBack) ==
    /\ collection = "FlashcardsPage"
    /\ mounted
    /\ CanCall(i)
    /\ selectedDeckId # NoSelection
    /\ TrimText(cardFront) # ""
    /\ TrimText(cardBack) # ""
    /\ calls' = [calls EXCEPT ![i] =
           [(IF editingCardId # NoSelection
             THEN NewCall("updateCard", <<editingCardId, cardFront, cardBack>>, cards)
             ELSE NewCall("addCard", <<selectedDeckId, cardFront, cardBack>>, cards))
               EXCEPT !.by = "handleAddCard"]]
    /\ UNCHANGED <<pageVars, collection, user, clock, favVars, flashVars, pairVars>>

\* FlashcardsPage.handleAddCard after a successful updateCard or addCard:
\* `await fetchDecks()`, the fetchDecks of the render that created the handler
handleAddCardRefetch(i) ==
    /\ collection = "FlashcardsPage"
    /\ CanCall(i)
    /\ i > 1
    /\ calls[i - 1].by = "handleAddCard"
    /\ calls[i - 1].phase = "done"
    /\ calls[i - 1].ret.ok
    /\ IF calls[i - 1].uid = "null"
       THEN /\ calls' = [calls EXCEPT ![i] =
                   [Returned("fetchDecks", <<>>, Return(TRUE))
                       EXCEPT !.uid = calls[i - 1].uid, !.by = "handleAddCard"]]
            /\ UNCHANGED flashHookVars
       ELSE /\ calls' = [calls EXCEPT ![i] =
                   [NewCall("fetchDecks", <<>>, <<>>)
                       EXCEPT !.uid = calls[i - 1].uid, !.by = "handleAddCard"]]
            /\ loading' = TRUE
            /\ error' = NoError
            /\ UNCHANGED <<decks, cards, progress>>
    /\ UNCHANGED <<pageVars, collection, user, clock, favVars, flashStoreVars, pairVars>>

\* FlashcardsPage.handleSelectDeck(deck.id), the click on a deck of the decks
\* mirror, up to the awaited fetchCards
handleSelectDeck(i, k) ==
    /\ collection = "FlashcardsPage"
    /\ mounted
    /\ CanCall(i)
    /\ k \in DOMAIN decks
    /\ selectedDeckId' = decks[k].id
    /\ currentCardIndex' = 0
    /\ calls' = [calls EXCEPT ![i] =
           [NewCall("fetchCards", <<decks[k].id>>, <<>>) EXCEPT !.by = "handleSelectDeck"]]
    /\ loading' = TRUE
    /\ error' = NoError
    /\ isFlipped' = FlippedAfter(decks, decks[k].id, cards, 0)
    /\ UNCHANGED <<mounted, deleteConfirm, collection, user, clock, favVars, flashStoreVars,
                   decks, cards, progress, pairVars>>

\* FlashcardsPage.handleSelectDeck after fetchCards returned:
\* `await fetchProgress(deckId)`
handleSelectDeckProgress(i) ==
    /\ collection = "FlashcardsPage"
    /\ CanCall(i)
    /\ i > 1
    /\ calls[i - 1].by = "handleSelectDeck"
    /\ calls[i - 1].op = "fetchCards"
    /\ calls[i - 1].phase = "done"
    /\ calls' = [calls EXCEPT ![i] =
           [(IF calls[i - 1].uid = "null"
             THEN Returned("fetchProgress", calls[i - 1].arg, Return(TRUE))
             ELSE NewCall("fetchProgress", calls[i - 1].arg, <<>>))
               EXCEPT !.uid = calls[i - 1].uid, !.by = "handleSelectDeck"]]
    /\ UNCHANGED <<pageVars, collection, user, clock, favVars, flashVars, pairVars>>

\* FlashcardsPage.handleNextCard: the Next button, the ArrowRight key
handleNextCard ==
    /\ collection = "FlashcardsPage"
    /\ mounted
    /\ currentCardIndex < Len(cards) - 1
    /\ currentCardIndex' = currentCardIndex + 1
    /\ isFlipped' = FlippedAfter(decks, selectedDeckId, cards, currentCardIndex')
    /\ UNCHANGED <<mounted, deleteConfirm, selectedDeckId, collection, user, calls, clock,
                   favVars, flashVars, pairVars>>

\* FlashcardsPage.handlePreviousCard: the Previous button, the ArrowLeft key
handlePreviousCard ==
    /\ collection = "FlashcardsPage"
    /\ mounted
    /\ currentCardIndex > 0
    /\ currentCardIndex' = currentCardIndex - 1
    /\ isFlipped' = FlippedAfter(decks, selectedDeckId, cards, currentCardIndex')
    /\ UNCHANGED <<mounted, deleteConfirm, selectedDeckId, collection, user, calls, clock,
                   favVars, flashVars, pairVars>>

\* FlashcardsPage: the dot of card k of the study section,
\* `onClick={() => setCurrentCardIndex(index)}`
handleDotClick(k) ==
    /\ collection = "FlashcardsPage"
    /\ mounted
    /\ StudyShown(decks, selectedDeckId, cards)
    /\ k \in DOMAIN cards
    /\ currentCardIndex' = k - 1
    /\ isFlipped' = FlippedAfter(decks, selectedDeckId, cards, currentCardIndex')
    /\ UNCHANGED <<mounted, deleteConfirm, selectedDeckId, collection, user, calls, clock,
                   favVars, flashVars, pairVars>>

\* FlashcardCard.handleFlip: the click on the rendered flashcard
handleFlip ==
    /\ collection = "FlashcardsPage"
    /\ mounted
    /\ CardShown(decks, selectedDeckId, cards, currentCardIndex)
    /\ isFlipped' = ~isFlipped
    /\ UNCHANGED <<mounted, deleteConfirm, selectedDeckId, currentCardIndex, collection, user,
                   calls, clock, favVars, flashVars, pairVars>>

\* FlashcardsPage: the delete button of card k of the cards list,
\* `onClick={() => setDeleteCardConfirm(card.id)}`
openDeleteCardDialog(k) ==
    /\ collection = "FlashcardsPage"
    /\ mounted
    /\ \E d \in DOMAIN decks : decks[d].id = selectedDeckId
    /\ k \in DOMAIN cards
    /\ deleteConfirm' = cards[k].id
    /\ UNCHANGED <<mounted, studyVars, collection, user, calls, clock, favVars, flashVars,
                   pairVars>>

\* FlashcardsPage.handleDeleteCard, the action button of the dialog, up to the
\* awaited deleteCard
handleDeleteCard(i) ==
    /\ collection = "FlashcardsPage"
    /\ mounted
    /\ CanCall(i)
    /\ deleteConfirm # NoSelection
    /\ calls' = [calls EXCEPT ![i] =
           [NewCall("deleteCard", <<deleteConfirm>>, cards)
               EXCEPT !.idx = currentCardIndex, !.by = "handleDeleteCard"]]
    /\ UNCHANGED <<pageVars, collection, user, clock, favVars, flashVars, pairVars>>

\* FlashcardsPage.handleDeleteCard after a successful deleteCard:
\* `await fetchDecks()`, then `setDeleteCardConfirm(null)`
handleDeleteCardRefetch(i) ==
    /\ collection = "FlashcardsPage"
    /\ CanCall(i)
    /\ i > 1
    /\ calls[i - 1].by = "handleDeleteCard"
    /\ calls[i - 1].phase = "done"
    /\ calls[i - 1].ret.ok
    /\ IF calls[i - 1].uid = "null"
       THEN /\ calls' = [calls EXCEPT ![i] =
                   [Returned("fetchDecks", <<>>, Return(TRUE))
                       EXCEPT !.uid = calls[i - 1].uid, !.by = "handleDeleteCard"]]
            /\ deleteConfirm' = NoSelection
            /\ UNCHANGED flashHookVars
       ELSE /\ calls' = [calls EXCEPT ![i] =
                   [NewCall("fetchDecks", <<>>, <<>>)
                       EXCEPT !.uid = calls[i - 1].uid, !.by = "handleDeleteCard"]]
            /\ loading' = TRUE
            /\ error' = NoError
            /\ UNCHANGED <<deleteConfirm, decks, cards, progress>>
    /\ UNCHANGED <<mounted, studyVars, collection, user, clock, favVars, flashStoreVars, pairVars>>

\* RandomPhrasePage.handleSavePhraseAsCard
handleSavePhraseAsCard(i, phrase) ==
    /\ collection = "RandomPhrasePage"
    /\ mounted
    /\ CanCall(i)
    /\ selectedDeckId # NoSelection
    /\ phrase # ""
    /\ Len(PhraseWords) # 0
    /\ calls' = [calls EXCEPT ![i] =
           [NewCall("addCard", <<selectedDeckId, phrase, WordList>>, cards)
               EXCEPT !.by = "handleSavePhraseAsCard"]]
    /\ UNCHANGED <<pageVars, collection, user, clock, favVars, flashVars, pairVars>>

\* The words of the generated phrase whose heart the user may click
ToggleWords == { <<"a">>, <<"b">> }

\* RandomPhrasePage.handleToggleFavorite(word), the heart of the WordCard of a
\* word of the phrase, up to the awaited removeFavorite or addFavorite
handleToggleFavorite(i, word) ==
    /\ collection = "RandomPhrasePage"
    /\ mounted
    /\ CanCall(i)
    /\ calls' = [calls EXCEPT ![i] =
           [(IF isFavorite(word)
             THEN (IF user = "null"
                   THEN Returned("removeFavorite", <<word>>, Return(FALSE))
                   ELSE NewCall("removeFavorite", <<word>>, favorites))
             ELSE (IF user = "null"
                   THEN Returned("addFavorite", <<word>>, Return(FALSE))
                   ELSE NewCall("addFavorite", <<word>>, favorites)))
               EXCEPT !.by = "handleToggleFavorite"]]
    /\ UNCHANGED <<pageVars, collection, user, clock, favVars, flashVars, pairVars>>

\* FavoritesPage.handleDeleteWord(word): the heart of the WordCard of a favorite,
\* `onToggleFavorite={handleDeleteWord}`.  setDeleteConfirm is called with null
\* only, so the confirmation dialog is never open.
handleDeleteWord(i, k) ==
    /\ collection = "FavoritesPage"
    /\ mounted
    /\ ~favLoading
    /\ CanCall(i)
    /\ k \in DOMAIN favorites
    /\ calls' = [calls EXCEPT ![i] =
           [(IF user = "null"
             THEN Returned("removeFavorite", <<favorites[k]>>, Return(FALSE))
             ELSE NewCall("removeFavorite", <<favorites[k]>>, favorites))
               EXCEPT !.by = "handleDeleteWord"]]
    /\ UNCHANGED <<pageVars, collection, user, clock, favVars, flashVars, pairVars>>

\* WordPairsPage renders its buttons, its form and its dialog only when the
\* hook holds no error: `if (error) return` the error message alone.  The
\* page's `user` is the value of useUser() itself, an object, so that its
\* `if (!user)` never navigates away and its `if (user)` always holds.
WordPairsShown == mounted /\ state.error = NoError

\* WordPairsPage, on mount: `if (user) fetchWordPairs(1, 20)`; fetchWordPairs
\* is memoized, so the effect does not run again
loadWordPairs(i) ==
    /\ collection = "WordPairsPage"
    /\ mounted
    /\ i = 1
    /\ CanCall(i)
    /\ calls' = [calls EXCEPT ![i] =
           [PairCall("fetchWordPairs", <<1, DefaultLimit>>) EXCEPT !.by = "useEffect"]]
    /\ state' = WordPairsStart(state)
    /\ UNCHANGED <<pageVars, collection, user, clock, favVars, flashVars, pairRows>>

\* WordPairsPage.handleSubmit: editingPair is the pair of handleEdit, or null
handleSubmit(i, editingPair, formData) ==
    /\ collection = "WordPairsPage"
    /\ WordPairsShown
    /\ i > 1
    /\ CanCall(i)
    /\ editingPair # NoSelection =>
           \E k \in DOMAIN state.pairs : state.pairs[k].id = editingPair
    /\ Trim(formData.word1) # <<>>
    /\ Trim(formData.word2) # <<>>
    /\ calls' = [calls EXCEPT ![i] =
           [(IF editingPair # NoSelection
             THEN PairCall("updateWordPair",
                           <<editingPair, formData, UpdatePayload(formData)>>)
             ELSE PairCall("createWordPair",
                           <<CreatePayload(formData.word1, formData.word2,
                                           formData.pair_type, formData.description)>>))
               EXCEPT !.by = "handleSubmit"]]
    /\ state' = WordPairsStart(state)
    /\ UNCHANGED <<pageVars, collection, user, clock, favVars, flashVars, pairRows>>

\* WordPairsPage: the delete button of a row, `setDeleteConfirm(pair.id)`
openDeleteDialog(k) ==
    /\ collection = "WordPairsPage"
    /\ WordPairsShown
    /\ k \in DOMAIN state.pairs
    /\ deleteConfirm' = state.pairs[k].id
    /\ UNCHANGED <<mounted, studyVars, collection, user, calls, clock, favVars, flashVars, pairVars>>

\* WordPairsPage.handleDelete: the action button of the dialog
handleDelete(i) ==
    /\ collection = "WordPairsPage"
    /\ WordPairsShown
    /\ deleteConfirm # NoSelection
    /\ i > 1
    /\ CanCall(i)
    /\ calls' = [calls EXCEPT ![i] =
           [PairCall("deleteWordPair", <<deleteConfirm>>) EXCEPT !.by = "handleDelete"]]
    /\ state' = WordPairsStart(state)
    /\ UNCHANGED <<pageVars, collection, user, clock, favVars, flashVars, pairRows>>

\* What the forms are filled with: both words, a blank first word, no second word
FormInputs ==
    { [word1 |-> <<"x">>, word2 |-> <<"y", " ">>, pair_type |-> "custom", description |-> <<>>],
      [word1 |-> <<" ">>, word2 |-> <<"y">>, pair_type |-> "custom", description |-> <<>>],
      [word1 |-> <<"x">>, word2 |-> <<>>, pair_type |-> "custom", description |-> <<"d">>] }

NextPages ==
    \E i \in CallIds :
        \/ \E u \in {Me, Other, "null"} : userChange(i, u)
        \/ unmount
        \/ \E n \in {"n2", " ", ""} : handleCreateDeck(i, n)
        \/ \E c \in {NoSelection, 1}, f \in {"q2", " "}, b \in {"a2", ""} :
              handleAddCard(i, c, f, b)
        \/ handleAddCardRefetch(i)
        \/ \E k \in 1..2 : handleSelectDeck(i, k)
        \/ handleSelectDeckProgress(i)
        \/ handleNextCard
        \/ handlePreviousCard
        \/ \E k \in 1..2 : handleDotClick(k)
        \/ handleFlip
        \/ openDeleteCardDialog(1)
        \/ handleDeleteCard(i)
        \/ handleDeleteCardRefetch(i)
        \/ fetchCardsStore(i)
        \/ fetchCardsSettle(i)
        \/ fetchProgressStore(i)
        \/ fetchProgressSettle(i)
        \/ deleteCardStore(i)
        \/ deleteCardSettle(i)
        \/ \E p \in {"", "p1"} : handleSavePhraseAsCard(i, p)
        \/ selectedDeckId # NoSelection /\ handleSaveWordsAsCards(i, selectedDeckId)
        \/ handleSaveWordsAsCardsLoop(i)
        \/ \E k \in 1..2 : handleDeleteWord(i, k)
        \/ \E w \in ToggleWords : handleToggleFavorite(i, w)
        \/ addFavoriteStore(i)
        \/ addFavoriteSettle(i)
        \/ loadWordPairs(i)
        \/ \E e \in {NoSelection, 1}, f \in FormInputs : handleSubmit(i, e, f)
        \/ \E k \in 1..2 : openDeleteDialog(k)
        \/ handleDelete(i)
        \/ fetchDecksStore(i)
        \/ fetchDecksSettle(i)
        \/ createDeckStore(i)
        \/ createDeckSettle(i)
        \/ addCardStore(i)
        \/ addCardSettle(i)
        \/ updateCardStore(i)
        \/ updateCardSettle(i)
        \/ fetchFavoritesStore(i)
        \/ fetchFavoritesSettle(i)
        \/ removeFavoriteStore(i)
        \/ removeFavoriteSettle(i)
        \/ fetchWordPairsStore(i)
        \/ fetchWordPairsSettle(i)
        \/ createWordPairStore(i)
        \/ createWordPairSettle(i)
        \/ updateWordPairStore(i)
        \/ updateWordPairSettle(i)
        \/ deleteWordPairStore(i)
        \/ deleteWordPairSettle(i)

\* The decks and cards the tables hold when the Flashcards page is opened: a
\* second deck of the user, with one card
PageDeckRows == Append(DeckInitRows, DeckRow(3, Me, "n3"))

PageCardRows == Append(CardsInitRows, CardRow(4, 3, "q4", "a4", 0))

InitFlashcards ==
    /\ deckRows = IF collection = "FlashcardsPage" THEN PageDeckRows ELSE DeckInitRows
    /\ cardRows \in CASE collection = "decks" -> CardInitRows
                       [] collection \in {"cards", "progress", "RandomPhrasePage"} ->
                             {CardsInitRows}
                       [] collection = "FlashcardsPage" -> {PageCardRows}
                       [] OTHER -> {<<>>}
    /\ progRows \in IF collection = "progress" THEN ProgressInitRows ELSE {<<>>}
    /\ decks \in IF collection \in {"decks", "FlashcardsPage", "RandomPhrasePage"}
                 THEN {<<>>, DeckSelect(deckRows, cardRows, user)}
                 ELSE {<<>>}
    /\ cards \in CASE collection = "cards" -> {<<>>, CardSelect(cardRows, deckRows, user, 1)}
                    [] collection = "FlashcardsPage" /\ selectedDeckId # NoSelection ->
                          {CardSelect(cardRows, deckRows, user, selectedDeckId)}
                    [] OTHER -> {<<>>}
    /\ progress \in IF collection = "progress"
                    THEN {<<>>, ProgressMap(ProgressSelect(progRows, user, user, 1))}
                    ELSE {<<>>}
    /\ loading = FALSE
    /\ error = NoError

InitWordPairs ==
    /\ pairRows = IF collection \in {"pairs", "WordPairsPage"} THEN PairInitRows ELSE <<>>
    /\ state \in IF collection = "pairs"
                 THEN { WordPairsInitState,
                        [WordPairsInitState EXCEPT
                            !.pairs = PairList(pairRows, user, 1, DefaultLimit).data,
                            !.pagination.total = PairList(pairRows, user, 1, DefaultLimit).count] }
                 ELSE { WordPairsInitState }

\* The page is opened by a signed-in user, or before anyone has signed in.
Users == {Me, "null"}

Collections == {"favorites", "decks", "cards", "progress", "pairs", "request"} \cup Pages

Init ==
    /\ collection \in Collections
    /\ user \in Users
    /\ calls = [i \in CallIds |-> IdleCall]
    /\ clock = 0
    /\ mounted = TRUE
    /\ deleteConfirm = NoSelection
    /\ selectedDeckId \in IF collection \in {"FlashcardsPage", "RandomPhrasePage"}
                          THEN {NoSelection, 1}
                          ELSE {NoSelection}
    /\ currentCardIndex = 0
    /\ isFlipped = FALSE
    /\ InitFavorites
    /\ InitFlashcards
    /\ InitWordPairs

Next ==
    \/ NextFavorites
    \/ NextDecks
    \/ NextCards
    \/ NextProgress
    \/ NextWordPairs
    \/ NextRequest
    \/ NextPages

Spec == Init /\ [][Next]_vars

InitSpecFavorites == Init /\ collection = "favorites"

SpecFavorites == InitSpecFavorites /\ [][NextFavorites]_vars

InitSpecDecks == Init /\ collection = "decks"

SpecDecks == InitSpecDecks /\ [][NextDecks]_vars

InitSpecCards == Init /\ collection = "cards"

SpecCards == InitSpecCards /\ [][NextCards]_vars

InitSpecProgress == Init /\ collection = "progress"

SpecProgress == InitSpecProgress /\ [][NextProgress]_vars

\* The steps the code does not wait for a caller to take: the store answers a
\* request that was sent and the continuation of an awaited request runs.
ProgressResponses ==
    \E i \in CallIds :
        \/ fetchProgressStore(i)
        \/ fetchProgressSettle(i)
        \/ recordProgressStore(i)
        \/ recordProgressWritten(i)
        \/ recordProgressRefetchStore(i)
        \/ recordProgressSettle(i)

SpecProgressFair == SpecProgress /\ WF_vars(ProgressResponses)

InitSpecWordPairs == Init /\ collection = "pairs"

SpecWordPairs == InitSpecWordPairs /\ [][NextWordPairs]_vars

InitSpecRequest == Init /\ collection = "request"

SpecRequest == InitSpecRequest /\ [][NextRequest]_vars

InitSpecPages == Init /\ collection \in Pages

SpecPages == InitSpecPages /\ [][NextPages]_vars

-----------------------------------------------------------------------------
(* Properties *)

Mutations ==
    {"createDeck", "deleteDeck", "addCard", "deleteCard", "updateCard",
     "addFavorite", "removeFavorite",
     "createWordPair", "updateWordPair", "deleteWordPair"}

\* The error state of the hook that owns operation `op`
HookErrorOf(op) ==
    CASE op \in {"fetchFavorites", "addFavorite", "removeFavorite"} -> favError
      [] op \in {"fetchWordPairs", "createWordPair", "updateWordPair", "deleteWordPair"} ->
            state.error
      [] OTHER -> error

\* The remote call of mutation i has reported an error that is not the
\* uniqueness conflict of a favorite word, and the call has not settled yet
RemoteFailure(i) ==
    /\ calls[i].op \in Mutations
    /\ calls[i].phase = "answered"
    /\ calls[i].resp.error # "none"
    /\ ~(calls[i].op = "addFavorite" /\ calls[i].resp.error = "23505")

\* The remote call of call i, an `op`, has succeeded, and this step settles it
SuccessfulSettle(i, op) ==
    /\ calls[i].op = op
    /\ calls[i].phase = "answered"
    /\ calls[i].resp.error = "none"
    /\ Settles(i)

\* C1: when the remote call of a mutation reports an error (other than the
\* uniqueness conflict of a favorite word), the step that settles the call
\* changes none of the item mirrors (decks, cards, favorites, pairs and
\* pagination.total), the error state of the hook is not null afterwards, and
\* the call reports the failure to its caller.
C1_FailureLeavesMirror ==
    [][\A i \in CallIds :
          (RemoteFailure(i) /\ Settles(i)) =>
              /\ decks' = decks
              /\ cards' = cards
              /\ favorites' = favorites
              /\ state'.pairs = state.pairs
              /\ state'.pagination.total = state.pagination.total
              /\ HookErrorOf(calls[i].op)' # NoError
              /\ ~calls'[i].ret.ok]_vars

\* A mutation has failed remotely and has settled, with items in the mirror and
\* the error recorded.
C1_Witness ==
    \E i \in CallIds :
        /\ calls[i].op = "deleteWordPair"
        /\ calls[i].phase = "done"
        /\ calls[i].resp.error # "none"
        /\ ~calls[i].ret.ok
        /\ state.pairs # <<>>
        /\ state.error # NoError

\* C2: a successful create leaves the returned item exactly once in the mirror:
\* a deck and a word pair at the head, a card at the tail; and a card is sent
\* with order_index equal to the length of the cards mirror when addCard is
\* called.
C2_CreateAppearsOnce ==
    [][\A i \in CallIds :
          /\ SuccessfulSettle(i, "createDeck") =>
                /\ Count(decks', calls'[i].ret.val[1]) = 1
                /\ Head(decks') = calls'[i].ret.val[1]
          /\ SuccessfulSettle(i, "createWordPair") =>
                /\ Count(state'.pairs, calls'[i].ret.val[1]) = 1
                /\ Head(state'.pairs) = calls'[i].ret.val[1]
          /\ SuccessfulSettle(i, "addCard") =>
                /\ Count(cards', calls'[i].ret.val[1]) = 1
                /\ cards'[Len(cards')] = calls'[i].ret.val[1]
          /\ (calls[i].phase = "idle" /\ calls'[i].op = "addCard") =>
                AddCardOrderIndex(calls'[i].cap) = Len(cards)]_vars

\* C3: when the remote delete of deleteDeck reports no error and has deleted no
\* row, deleteDeck returns false, records the "not found" error, which no store
\* or transport failure records, and leaves the decks mirror unchanged.
C3_DeleteDeckZeroRows ==
    [][\A i \in CallIds :
          ( /\ calls[i].op = "deleteDeck"
            /\ calls[i].phase = "answered"
            /\ calls[i].resp.error = "none"
            /\ calls[i].resp.affected = 0
            /\ Settles(i) ) =>
              /\ calls'[i].ret = Return(FALSE)
              /\ error' = NotFoundMessage
              /\ \A f \in StoreFaults :
                    NotFoundMessage # CaughtError(f, "Failed to delete deck")
              /\ decks' = decks]_vars

\* deleteDeck has settled after a delete that touched no row, with decks in
\* the mirror.
C3_Witness ==
    \E i \in CallIds :
        /\ calls[i].op = "deleteDeck"
        /\ calls[i].phase = "done"
        /\ calls[i].resp.error = "none"
        /\ calls[i].resp.affected = 0
        /\ ~calls[i].ret.ok
        /\ error = NotFoundMessage
        /\ decks # <<>>

\* C4: deleteCard and removeFavorite return false, record an error and leave
\* the mirror unchanged when the remote delete has deleted no row; they return
\* true and remove the item from the mirror only when a row was deleted.
C4_DeleteZeroRows ==
    [][\A i \in CallIds :
          ( /\ calls[i].op \in {"deleteCard", "removeFavorite"}
            /\ calls[i].phase = "answered"
            /\ calls[i].resp.error = "none"
            /\ Settles(i) ) =>
              IF calls[i].resp.affected = 0
              THEN /\ ~calls'[i].ret.ok
                   /\ HookErrorOf(calls[i].op)' # NoError
                   /\ cards' = cards
                   /\ favorites' = favorites
              ELSE /\ calls'[i].ret.ok
                   /\ \A k \in DOMAIN cards' :
                         calls[i].op = "deleteCard" => cards'[k].id # calls[i].arg[1]
                   /\ calls[i].op = "removeFavorite" =>
                         Normalize(calls[i].arg[1]) \notin Range(favorites')]_vars

\* "Apple", "apple" and " apple " in the characters of the model: inputs that
\* differ only in letter case and surrounding whitespace, and the word they
\* all stand for
AppleVariants == { <<"A">>, <<"a">>, <<" ", "a", " ">> }

Apple == <<"a">>

StoredCount(owner, word) ==
    Cardinality({ k \in DOMAIN favRows : favRows[k] = FavRow(owner, word) })

\* Every call made so far is an addFavorite of a variant of the word
OnlyAddsOfApple ==
    \A i \in CallIds :
        calls[i].phase # "idle" =>
            calls[i].op = "addFavorite" /\ calls[i].arg[1] \in AppleVariants

\* C5: while the user only calls addFavorite with variants of one word, in any
\* order and overlap, the store never holds more than one row for the word and
\* the mirror never more than one entry, neither holds another variant, and
\* once the calls have settled and one of them has returned true the store
\* holds exactly one row and the mirror exactly one entry for the word.
C5_FavoriteIdempotence ==
    OnlyAddsOfApple =>
        /\ StoredCount(Me, Apple) <= 1
        /\ Count(favorites, Apple) <= 1
        /\ \A v \in AppleVariants \ {Apple} :
              StoredCount(Me, v) = 0 /\ Count(favorites, v) = 0
        /\ ( /\ \A i \in CallIds : ~InFlight(i)
             /\ \E i \in CallIds : calls[i].phase = "done" /\ calls[i].ret.ok ) =>
               /\ StoredCount(Me, Apple) = 1
               /\ Count(favorites, Apple) = 1

\* Two addFavorite calls with different variants of the word have returned
\* true; one row and one entry are left.
C5_Witness ==
    /\ OnlyAddsOfApple
    /\ \A i \in 1..2 : calls[i].phase = "done" /\ calls[i].ret.ok
    /\ calls[1].arg[1] # calls[2].arg[1]
    /\ calls[1].arg[1] # Apple
    /\ StoredCount(Me, Apple) = 1
    /\ Count(favorites, Apple) = 1

\* C6: when the insert of addFavorite is rejected by the uniqueness constraint
\* (23505), addFavorite returns true, leaves the error state as it was, and the
\* favorites mirror then holds the normalized word exactly once.
C6_ConflictIsSuccess ==
    [][\A i \in CallIds :
          ( /\ calls[i].op = "addFavorite"
            /\ calls[i].phase = "answered"
            /\ calls[i].resp.error = "23505"
            /\ Settles(i) ) =>
              /\ calls'[i].ret = Return(TRUE)
              /\ favError' = favError
              /\ Count(favorites', Normalize(calls[i].arg[1])) = 1]_vars

\* addFavorite has settled after a conflict, and the mirror its closure held
\* already contained the word.
C6_Witness ==
    \E i \in CallIds :
        /\ calls[i].op = "addFavorite"
        /\ calls[i].phase = "done"
        /\ calls[i].resp.error = "23505"
        /\ calls[i].ret.ok
        /\ Normalize(calls[i].arg[1]) \in Range(calls[i].cap)
        /\ calls[i].arg[1] # Normalize(calls[i].arg[1])
        /\ favError = NoError

\* C7: a successful updateCard or updateWordPair replaces the item of the
\* mirror with the id by the returned record, at its position, and changes
\* nothing else of the mirror: not its length, its order or another item.
C7_UpdateInPlace ==
    [][\A i \in CallIds :
          /\ SuccessfulSettle(i, "updateCard") =>
                cards' = [k \in DOMAIN cards |->
                             IF cards[k].id = calls[i].arg[1]
                             THEN calls[i].resp.data[1] ELSE cards[k]]
          /\ SuccessfulSettle(i, "updateWordPair") =>
                state'.pairs = [k \in DOMAIN state.pairs |->
                                   IF state.pairs[k].id = calls[i].arg[1]
                                   THEN calls[i].resp.data[1] ELSE state.pairs[k]]]_vars

IsEmptyValue(f, v) == IF f = "pair_type" THEN v = "" ELSE v = <<>>

RecordsOf(card) == SelectSeq(progRows, LAMBDA r : r.owner = Me /\ r.card_id = card)

\* Call i is recordProgress(card, deck, correct = true) of the user, has settled, and none
\* of its requests was lost to a failing store
RecordedCorrect(i, card) ==
    /\ calls[i].op = "recordProgress"
    /\ calls[i].uid = Me
    /\ calls[i].arg[1] = card
    /\ calls[i].arg[3]
    /\ calls[i].phase = "done"
    /\ calls[i].resp.error # "fault"

\* The store held no Progress record for the card before the first call: every
\* record it holds was created by a call of this run
NoEarlierRecord(card) ==
    \A k \in DOMAIN RecordsOf(card) :
        RecordsOf(card)[k].id \in { NewId(i) : i \in CallIds }

\* C9: for a card with no Progress record and a reachable store, after one
\* recordProgress(correct = true) the record holds the counts 1 and 0; after a
\* second one, issued when the first has settled, both calls have returned
\* true and the store holds a single record with correct_count 2 and
\* incorrect_count 0, whose last_reviewed_at is the time of the second call and
\* not earlier than the time the first call wrote.
C9_TwoInARow ==
    \A card \in {1} :
        /\ ( /\ RecordedCorrect(1, card)
             /\ NoEarlierRecord(card)
             /\ \A k \in CallIds \ {1} : calls[k].phase = "idle" ) =>
               /\ calls[1].ret.ok
               /\ Len(RecordsOf(card)) = 1
               /\ RecordsOf(card)[1].correct_count = 1
               /\ RecordsOf(card)[1].incorrect_count = 0
               /\ RecordsOf(card)[1].last_reviewed_at = calls[1].arg[4]
        /\ ( /\ RecordedCorrect(1, card)
             /\ RecordedCorrect(2, card)
             /\ calls[2].alone
             /\ NoEarlierRecord(card)
             /\ \A k \in CallIds \ {1, 2} : calls[k].phase = "idle" ) =>
               /\ calls[1].ret.ok
               /\ calls[2].ret.ok
               /\ Len(RecordsOf(card)) = 1
               /\ RecordsOf(card)[1].correct_count = 2
               /\ RecordsOf(card)[1].incorrect_count = 0
               /\ RecordsOf(card)[1].last_reviewed_at = calls[2].arg[4]
               /\ calls[2].arg[4] >= calls[1].arg[4]

\* Two recordProgress(correct = true) calls, one after the other, at different
\* times, have settled on a card that had no record.
C9_Witness ==
    /\ RecordedCorrect(1, 1)
    /\ RecordedCorrect(2, 1)
    /\ calls[2].alone
    /\ NoEarlierRecord(1)
    /\ calls[2].ret.ok
    /\ calls[2].arg[4] > calls[1].arg[4]
    /\ RecordsOf(1)[1].correct_count = 2

\* The observations the store held for card 1 before the first call: the
\* record of the earlier review (id 1) held one
EarlierObservations == IF \E k \in DOMAIN progRows : progRows[k].id = 1 THEN 1 ELSE 0

StoredObservations(card) ==
    IF RecordsOf(card) = <<>> THEN 0
    ELSE RecordsOf(card)[1].correct_count + RecordsOf(card)[1].incorrect_count

\* C10: once all recordProgress calls for one card have settled, in any
\* interleaving, the stored correct_count + incorrect_count has grown by the
\* number of calls that returned true.
C10_NoLostObservation ==
    ( /\ \A i \in CallIds : ~InFlight(i)
      /\ \A i \in CallIds :
            calls[i].phase = "done" =>
                calls[i].op = "recordProgress" /\ calls[i].arg[1] = 1 ) =>
        StoredObservations(1) =
            EarlierObservations +
            Cardinality({ i \in CallIds : calls[i].phase = "done" /\ calls[i].ret.ok })

\* C11: when recordProgress returns true, on the update path and on the insert
\* path, and no other progress operation is in flight, the entry of the
\* progress mirror for the card is the Progress record the store holds for the
\* user and the card.
C11_MirrorFollowsStore ==
    [][\A i \in CallIds :
          ( /\ calls[i].op = "recordProgress"
            /\ Settles(i)
            /\ calls'[i].ret.ok
            /\ \A k \in CallIds \ {i} : ~InFlight(k) ) =>
              /\ calls[i].arg[1] \in DOMAIN progress'
              /\ <<progress'[calls[i].arg[1]]>> = RecordsOf(calls[i].arg[1])]_vars

Fetches == {"fetchDecks", "fetchCards", "fetchFavorites", "fetchWordPairs"}

\* The loading state of the hook that owns operation `op`
HookLoadingOf(op) ==
    CASE op \in {"fetchFavorites", "addFavorite", "removeFavorite"} -> favLoading
      [] op \in {"fetchWordPairs", "createWordPair", "updateWordPair", "deleteWordPair"} ->
            state.loading
      [] OTHER -> loading

\* The mirror that fetch `op` fills
FetchedMirror(op) ==
    CASE op = "fetchDecks" -> decks
      [] op = "fetchCards" -> cards
      [] op = "fetchFavorites" -> favorites
      [] OTHER -> state.pairs

\* The items of the response to fetch `op`
FetchedItems(op, resp) == IF op = "fetchWordPairs" THEN resp.data[1].data ELSE resp.data

\* C12: a fetch (fetchDecks, fetchCards, fetchFavorites, fetchWordPairs) that
\* issues its request sets loading and clears the error when it starts; when it
\* settles after a success the mirror is the list of the response, in its
\* order, and loading is false; when it settles after a failure the error is
\* recorded, the mirror is as it was and loading is false.
C12_FetchLifecycle ==
    [][\A i \in CallIds :
          /\ \A op \in Fetches :
                ( /\ calls[i].phase = "idle"
                  /\ calls'[i].op = op
                  /\ calls'[i].phase # "done" ) =>
                    /\ HookLoadingOf(op)' = TRUE
                    /\ HookErrorOf(op)' = NoError
                    /\ FetchedMirror(op)' = FetchedMirror(op)
          /\ ( /\ calls[i].op \in Fetches
               /\ calls[i].phase = "answered"
               /\ Settles(i) ) =>
                 IF calls[i].resp.error = "none"
                 THEN /\ FetchedMirror(calls[i].op)' = FetchedItems(calls[i].op, calls[i].resp)
                      /\ HookLoadingOf(calls[i].op)' = FALSE
                 ELSE /\ HookErrorOf(calls[i].op)' # NoError
                      /\ FetchedMirror(calls[i].op)' = FetchedMirror(calls[i].op)
                      /\ HookLoadingOf(calls[i].op)' = FALSE]_vars

\* A fetch has succeeded and filled the mirror, and a later fetch has failed and
\* left it.
C12_Witness ==
    /\ calls[1].op \in Fetches
    /\ calls[1].phase = "done"
    /\ calls[1].resp.error = "none"
    /\ calls[2].op = calls[1].op
    /\ calls[2].phase = "done"
    /\ calls[2].resp.error # "none"
    /\ FetchedMirror(calls[1].op) = FetchedItems(calls[1].op, calls[1].resp)
    /\ FetchedMirror(calls[1].op) # <<>>
    /\ HookErrorOf(calls[1].op) # NoError
    /\ ~HookLoadingOf(calls[1].op)

GuardedOperations ==
    {"fetchDecks", "fetchCards", "fetchProgress", "createDeck", "deleteDeck",
     "addCard", "deleteCard", "updateCard", "recordProgress",
     "fetchFavorites", "addFavorite", "removeFavorite"}

\* C13: with no user established, every operation of useFlashcards and
\* useFavoriteWords returns at once: it issues no request to the store and
\* leaves the mirrors unchanged.
C13_NoUserNoRequest ==
    [][\A i \in CallIds :
          ( /\ calls[i].phase = "idle"
            /\ calls'[i].op \in GuardedOperations
            /\ calls'[i].uid = "null" ) =>
              /\ calls'[i].phase = "done"
              /\ decks' = decks
              /\ cards' = cards
              /\ progress' = progress
              /\ favorites' = favorites]_vars

PageHandlers ==
    {"handleSubmit", "handleCreateDeck", "handleAddCard", "handleSavePhraseAsCard",
     "handleSaveWordsAsCards"}

\* C14: no page handler issues a create or update for a word pair whose word1
\* or word2 is blank, for a deck whose name is blank, or for a card whose front
\* or back is blank.
C14_RequiredFieldsValidated ==
    \A i \in CallIds :
        calls[i].by \in PageHandlers =>
            CASE calls[i].op = "createDeck" -> TrimText(calls[i].arg[1]) # ""
              [] calls[i].op \in {"addCard", "updateCard"} ->
                    /\ TrimText(calls[i].arg[2]) # ""
                    /\ TrimText(calls[i].arg[3]) # ""
              [] calls[i].op = "createWordPair" ->
                    /\ Trim(calls[i].arg[1].word1) # <<>>
                    /\ Trim(calls[i].arg[1].word2) # <<>>
              [] calls[i].op = "updateWordPair" ->
                    /\ Trim(calls[i].arg[2].word1) # <<>>
                    /\ Trim(calls[i].arg[2].word2) # <<>>
              [] OTHER -> TRUE

\* The owner of the stored deck `deckId`, if the deck is stored.
OwnedByUser(deckId) ==
    \A r \in DOMAIN deckRows : deckRows[r].id = deckId => deckRows[r].owner = user

\* C15: in every state, also after the user changed, every deck and card of
\* the mirrors belongs to the current user; with no user the decks, cards,
\* progress and favorites mirrors hold nothing.
C15_MirrorOfCurrentUser ==
    /\ user = "null" =>
          /\ decks = <<>>
          /\ cards = <<>>
          /\ favorites = <<>>
          /\ DOMAIN progress = {}
    /\ \A k \in DOMAIN decks : OwnedByUser(decks[k].id)
    /\ \A k \in DOMAIN cards : OwnedByUser(cards[k].deck_id)

\* C16: once the component that owns the hooks is torn down, no continuation
\* changes the mirror, loading or error of a hook.
C16_NoMutationAfterTeardown ==
    [][~mounted => UNCHANGED <<favHookVars, flashHookVars, state>>]_vars

\* C18: every removeFavorite request of FavoritesPage is issued while the
\* confirmation dialog is open, that is, after the dialog was opened for a word
\* and the user confirmed.
C18_RemoveOnlyConfirmed ==
    [][\A i \in CallIds :
          ( /\ calls[i].phase = "idle"
            /\ calls'[i].by = "handleDeleteWord"
            /\ calls'[i].phase = "sent" ) => deleteConfirm # NoSelection]_vars

\* An action of the Word Pairs page that starts a new operation (or opens the
\* dialog that starts it).
WordPairsPageAction ==
    \E i \in CallIds :
        \/ \E e \in {NoSelection, 1}, f \in FormInputs : handleSubmit(i, e, f)
        \/ \E k \in 1..2 : openDeleteDialog(k)
        \/ handleDelete(i)

\* C19: with an error recorded on the Word Pairs page and a call left to make,
\* the user can still reach an action that starts a new operation.
C19_ErrorIsTransient ==
    ( /\ collection = "WordPairsPage"
      /\ mounted
      /\ calls[1].phase = "done"
      /\ calls[MaxCalls].phase = "idle"
      /\ state.error # NoError ) => ENABLED WordPairsPageAction

\* C17: makeAuthenticatedRequest throws, for every response that is not ok, an
\* error whose message is the message of the body when the body carries one,
\* and is otherwise (no message, or a body that is not JSON) made from the
\* status text; without a session it throws 'User must be authenticated' and
\* sends nothing.
C17_RequestError ==
    [][\A i \in CallIds :
          ( /\ calls'[i].op = "makeAuthenticatedRequest"
            /\ Settles(i) ) =>
              LET response == calls'[i].arg[1]
              IN  IF calls'[i].uid = "null"
                  THEN /\ calls[i].phase = "idle"
                       /\ calls'[i].resp.error = "User must be authenticated"
                  ELSE ~response.ok =>
                          calls'[i].resp.error =
                              IF response.json /\ response.error # ""
                              THEN response.error
                              ELSE "Request failed: " \o response.statusText]_vars

\* C20: addFavorite of an empty or whitespace-only word returns false at once,
\* sends no insert, and the favorites mirror never holds the empty word.
C20_BlankFavoriteRejected ==
    [][/\ \A i \in CallIds :
             ( /\ calls[i].phase = "idle"
               /\ calls'[i].op = "addFavorite"
               /\ Trim(calls'[i].arg[1]) = <<>> ) =>
                 /\ calls'[i].phase = "done"
                 /\ ~calls'[i].ret.ok
                 /\ favorites' = favorites
       /\ \A k \in DOMAIN favorites' : favorites'[k] # <<>>]_vars

\* C21: a create that succeeds adds its item to the mirror as it stands when
\* the create settles: the items of the mirror after the step are those before
\* it and the created one, so nothing another operation put there is lost and
\* nothing it removed comes back.
C21_CreateOnCurrentMirror ==
    [][\A i \in CallIds :
          /\ SuccessfulSettle(i, "createDeck") =>
                Range(decks') = Range(decks) \cup {calls'[i].ret.val[1]}
          /\ SuccessfulSettle(i, "addCard") =>
                Range(cards') = Range(cards) \cup {calls[i].resp.data[1]}
          /\ SuccessfulSettle(i, "addFavorite") =>
                Range(favorites') = Range(favorites) \cup {Normalize(calls[i].arg[1])}]_vars

\* Call i is an addCard of handleSaveWordsAsCards that has succeeded and settled.
SavedWord(i) ==
    /\ calls[i].by = "handleSaveWordsAsCards"
    /\ calls[i].op = "addCard"
    /\ calls[i].phase = "done"
    /\ calls[i].resp.error = "none"

\* C22: when handleSaveWordsAsCards saves the words of the phrase and every
\* addCard succeeds, consecutive words are sent with consecutive order_index
\* values and every saved card is in the cards mirror.
C22_WordsAppended ==
    \A i \in CallIds \ {1} :
        (collection = "RandomPhrasePage" /\ SavedWord(i - 1) /\ SavedWord(i)) =>
            /\ calls[i].resp.data[1].order_index = calls[i - 1].resp.data[1].order_index + 1
            /\ calls[i - 1].resp.data[1] \in Range(cards)
            /\ calls[i].resp.data[1] \in Range(cards)

PairIds(pairs) == { pairs[k].id : k \in DOMAIN pairs }

\* C23 (amended): every successful createWordPair, updateWordPair and
\* deleteWordPair response is applied to the pairs mirror and the total as they
\* stand when the response arrives, whatever other calls are doing: the created
\* pair is put at the head and the total grows by one; the pair with the
\* updated id, if the mirror holds it, is replaced in place and nothing else
\* changes; the pair with the deleted id is removed, the others keep their
\* order, and the total becomes max(0, total - 1).
C23_AppliedToCurrentMirror ==
    [][\A i \in CallIds :
          /\ SuccessfulSettle(i, "createWordPair") =>
                /\ state'.pairs = <<calls[i].resp.data[1]>> \o state.pairs
                /\ state'.pagination.total = state.pagination.total + 1
          /\ SuccessfulSettle(i, "updateWordPair") =>
                /\ state'.pairs = [k \in DOMAIN state.pairs |->
                                      IF state.pairs[k].id = calls[i].arg[1]
                                      THEN calls[i].resp.data[1] ELSE state.pairs[k]]
                /\ state'.pagination.total = state.pagination.total
          /\ SuccessfulSettle(i, "deleteWordPair") =>
                /\ state'.pairs = SelectSeq(state.pairs, LAMBDA q : q.id # calls[i].arg[1])
                /\ state'.pagination.total >= 0
                /\ state'.pagination.total =
                      IF state.pagination.total = 0 THEN 0 ELSE state.pagination.total - 1]_vars

\* A create and a delete of another pair overlapped and both succeeded: the
\* created pair is in the mirror, the deleted one is not, and a pair that
\* neither touched is still there.
C23_Witness ==
    /\ calls[1].op = "createWordPair"
    /\ calls[2].op = "deleteWordPair"
    /\ ~calls[2].alone
    /\ calls[1].phase = "done" /\ calls[1].ret.ok
    /\ calls[2].phase = "done" /\ calls[2].ret.ok
    /\ calls[2].arg[1] = 1
    /\ PairIds(state.pairs) = {NewId(1), 3}
    /\ state.pagination.total = 2

\* C23 as stated: every successful create leaves its pair in the mirror and
\* adds one to the total, every successful delete leaves no pair with its id
\* and takes one from the total, which is never negative, and every successful
\* update leaves the updated version in the mirror.
C23_CommuteWithExactTotal ==
    [][\A i \in CallIds :
          /\ SuccessfulSettle(i, "createWordPair") =>
                /\ calls[i].resp.data[1] \in Range(state'.pairs)
                /\ state'.pagination.total = state.pagination.total + 1
          /\ SuccessfulSettle(i, "updateWordPair") =>
                /\ calls[i].resp.data[1] \in Range(state'.pairs)
                /\ state'.pagination.total = state.pagination.total
          /\ SuccessfulSettle(i, "deleteWordPair") =>
                /\ calls[i].arg[1] \notin PairIds(state'.pairs)
                /\ state'.pagination.total = state.pagination.total - 1
                /\ state'.pagination.total >= 0]_vars

\* C24: nextPage fetches only when page < ceil(total / limit) and then asks
\* for page + 1 with the same limit; prevPage fetches only when page > 1 and
\* then asks for page - 1 with the same limit; the page asked for is never
\* below 1 or above ceil(total / limit); and hasNextPage and hasPrevPage hold
\* exactly in the states where nextPage and prevPage would fetch.
C24_PageNavigation ==
    /\ [](hasNextPage <=> state.pagination.page < MaxPage(state.pagination))
    /\ [](hasPrevPage <=> state.pagination.page > 1)
    /\ [][\A i \in CallIds :
             /\ (calls[i].phase = "idle" /\ calls'[i].by = "nextPage") =>
                   /\ hasNextPage
                   /\ calls'[i].op = "fetchWordPairs"
                   /\ calls'[i].arg = <<state.pagination.page + 1, state.pagination.limit>>
                   /\ calls'[i].arg[1] <= CeilDiv(state.pagination.total, state.pagination.limit)
                   /\ calls'[i].arg[1] >= 1
             /\ (calls[i].phase = "idle" /\ calls'[i].by = "prevPage") =>
                   /\ hasPrevPage
                   /\ calls'[i].op = "fetchWordPairs"
                   /\ calls'[i].arg = <<state.pagination.page - 1, state.pagination.limit>>
                   /\ calls'[i].arg[1] <= CeilDiv(state.pagination.total, state.pagination.limit)
                   /\ calls'[i].arg[1] >= 1]_vars

\* A fetchCards call whose response has not been applied yet
FetchCardsInFlight == \E i \in CallIds : calls[i].op = "fetchCards" /\ InFlight(i)

\* C25: on the Flashcards page, whenever no fetchCards call is in flight and a
\* deck is selected, every card of the cards mirror has the deck_id
\* selectedDeckId, whatever the order of the fetchCards responses and also
\* when a fetchCards call failed.
C25_CardsOfSelectedDeck ==
    (collection = "FlashcardsPage" /\ ~FetchCardsInFlight /\ selectedDeckId # NoSelection) =>
        \A k \in DOMAIN cards : cards[k].deck_id = selectedDeckId

\* C26: on the Flashcards page, whenever the cards mirror is not empty,
\* 0 <= currentCardIndex < cards.length.
C26_IndexInRange ==
    (collection = "FlashcardsPage" /\ cards # <<>>) =>
        (0 <= currentCardIndex /\ currentCardIndex < Len(cards))

\* The user moves to another card: next, previous or dot navigation, or the
\* selection of another deck
MovesToOtherCard ==
    \/ currentCardIndex' # currentCardIndex /\ UNCHANGED calls
    \/ selectedDeckId' # selectedDeckId

\* C30: on the Flashcards study view, after the user has moved to a different
\* card, the flashcard that is displayed shows its front side.
C30_NewCardShowsFront ==
    [][(collection = "FlashcardsPage" /\ MovesToOtherCard
          /\ CardShown(decks', selectedDeckId', cards', currentCardIndex')) =>
            ~isFlipped']_vars

\* Every call made so far was made while no other call was in flight
OneAtATime == \A i \in CallIds : calls[i].alone

\* C27: within one deck the order_index values of the stored cards are
\* pairwise distinct after any sequence of fetchCards, addCard and deleteCard
\* issued one at a time from the Flashcards page.
C27_OrderIndexDistinct ==
    (collection = "FlashcardsPage" /\ OneAtATime) =>
        \A j, k \in DOMAIN cardRows :
            (j # k /\ cardRows[j].deck_id = cardRows[k].deck_id) =>
                cardRows[j].order_index # cardRows[k].order_index

\* recordProgress call i has returned false on the uniqueness violation of
\* its insert: the store holds a record of the card that the mirror of the
\* call did not
FailedOnDuplicate(i) ==
    /\ calls[i].op = "recordProgress"
    /\ calls[i].phase = "done"
    /\ calls[i].resp.error = UniqueViolation.error

\* C28: after a recordProgress call has failed on the uniqueness violation of
\* its insert, the progress mirror is eventually resynchronized: it comes to
\* hold the record of the card, so that a later call updates it and returns true.
C28_StaleMirrorRecovers ==
    \A i \in CallIds : FailedOnDuplicate(i) ~> (1 \in DOMAIN progress)

\* The words the store holds as favorites of the current user
StoredFavorites == { favRows[k].word : k \in { j \in DOMAIN favRows : favRows[j].owner = user } }

\* No favorite operation is in flight and every addFavorite and removeFavorite
\* call made since the favorites were fetched returned true
FavoritesSettledWell ==
    /\ \A i \in CallIds : ~InFlight(i)
    /\ \A i \in CallIds :
          calls[i].op \in {"addFavorite", "removeFavorite"} => calls[i].ret.ok

\* C29: on the Random Phrase page, whenever no favorite operation is in flight
\* and every addFavorite / removeFavorite call made since the favorites were
\* fetched returned true, the set of words of the favorites mirror equals the
\* set of words stored for the user, whatever the interleaving of overlapping
\* handleToggleFavorite calls on different words.
C29_MirrorEqualsStore ==
    (collection = "RandomPhrasePage" /\ FavoritesSettledWell) =>
        Range(favorites) = StoredFavorites

====
